---- MODULE Spec2Model ----
(***************************************************************************)
(* A model of the analytics dashboard's core: the DataProcessor (upload    *)
(* validation, KPI derivation, trend and alert queries) and the            *)
(* BusinessForecasting engine (resampling, revenue / expense / inventory   *)
(* forecasts).                                                             *)
(*                                                                         *)
(* A DataFrame is a record [kind, cols, dtypes, rows]: cols is the set of  *)
(* column names, dtypes gives every column's dtype ("object", "number",    *)
(* "datetime", "period"), rows is the sequence of rows, each a function    *)
(* from column name to cell.  Numeric and date cells are integers:         *)
(*   - a "datetime" cell is a timestamp in ticks (TicksPerDay per day),    *)
(*     day 0 being Monday 2024-01-01;                                      *)
(*   - an "object" date cell is the text of a date, coded day * 10 + tod,  *)
(*     or BadText when the text is no date;                                *)
(*   - a "number" cell is the number or NaN; an "object" numeric cell is   *)
(*     the text of a number, BadText or NaN (an empty cell).               *)
(* Floating-point values are modelled as exact rationals [num, den].       *)
(***************************************************************************)
EXTENDS Integers, Sequences, FiniteSets, TLC

VARIABLES sales_data, expenses_data, inventory_data, forecast_data, ret

vars == <<sales_data, expenses_data, inventory_data, forecast_data, ret>>

(***************************************************************************)
(* Values                                                                  *)
(***************************************************************************)
None == [kind |-> "None"]

IsNone(x) == x.kind = "None"

NaN == 0 - 1048576

BadText == NaN - 1

NaT == NaN - 2

TicksPerDay == 2

\* timedelta(days = n) in ticks
timedelta(n) == n * TicksPerDay

Abs(n) == IF n < 0 THEN 0 - n ELSE n

Max(a, b) == IF a >= b THEN a ELSE b

Min(a, b) == IF a <= b THEN a ELSE b

RECURSIVE GCD(_, _)
GCD(a, b) == IF b = 0 THEN a ELSE GCD(b, a % b)

Sign(n) == IF n < 0 THEN 0 - 1 ELSE IF n > 0 THEN 1 ELSE 0

\* a float, as the exact rational num / den in lowest terms (den > 0); a
\* division by zero gives an infinity or nan, written with den = 0
Rat(n, d) ==
    IF d = 0 THEN [num |-> Sign(n), den |-> 0]
    ELSE LET g == GCD(Abs(n), Abs(d))
         IN  [num |-> (Sign(d) * n) \div g, den |-> Abs(d) \div g]

RatInt(n) == [num |-> n, den |-> 1]

\* float('nan'): the mean of an empty series
RatNaN == [num |-> 0, den |-> 0]

\* a + b over the least common denominator, which keeps the integers small
RatAdd(a, b) ==
    IF a.den = 0 \/ b.den = 0 THEN Rat(a.num * b.den + b.num * a.den, 0)
    ELSE LET g == GCD(a.den, b.den)
         IN  Rat(a.num * (b.den \div g) + b.num * (a.den \div g), (a.den \div g) * b.den)

RatNeg(a) == [num |-> 0 - a.num, den |-> a.den]

RatSub(a, b) == RatAdd(a, RatNeg(b))

\* a * b, the common factors cancelled before multiplying
RatMul(a, b) ==
    IF a.den = 0 \/ b.den = 0 THEN Rat(a.num * b.num, 0)
    ELSE LET g == GCD(Abs(a.num), b.den)
             h == GCD(Abs(b.num), a.den)
         IN  Rat((a.num \div g) * (b.num \div h), (a.den \div h) * (b.den \div g))

RatDiv(a, b) ==
    IF a.den = 0 \/ b.den = 0 \/ b.num = 0 THEN Rat(a.num * b.den, a.den * b.num)
    ELSE RatMul(a, [num |-> Sign(b.num) * b.den, den |-> Abs(b.num)])

RatLt(a, b) == a.num * b.den < b.num * a.den

RatLe(a, b) == a.num * b.den <= b.num * a.den

RatMax(a, b) == IF RatLt(a, b) THEN b ELSE a

RatAbs(a) == [num |-> Abs(a.num), den |-> a.den]

(***************************************************************************)
(* DataFrames                                                              *)
(***************************************************************************)
DataFrame(c, d, r) == [kind |-> "DataFrame", cols |-> c, dtypes |-> d, rows |-> r]

Range(s) == {s[i] : i \in DOMAIN s}

\* df[col], the column as a sequence of cells
Column(df, col) == [i \in DOMAIN df.rows |-> df.rows[i][col]]

\* df[col] = values: the column is replaced, or added when it is new
SetColumn(df, col, dtype, values) ==
    LET cs == df.cols \cup {col}
    IN  DataFrame(cs,
                  [c \in cs |-> IF c = col THEN dtype ELSE df.dtypes[c]],
                  [i \in DOMAIN df.rows |->
                      [c \in cs |-> IF c = col THEN values[i] ELSE df.rows[i][c]]])

\* df[mask]: the rows whose entry in the boolean mask is true, in order
RECURSIVE FilterIdx(_, _, _)
FilterIdx(rows, mask, i) ==
    IF i > Len(rows) THEN <<>>
    ELSE (IF mask[i] THEN <<rows[i]>> ELSE <<>>) \o FilterIdx(rows, mask, i + 1)

FilterRows(df, mask) == [df EXCEPT !.rows = FilterIdx(df.rows, mask, 1)]

\* Series.sum(): NaN cells are skipped, the rest added in row order
RECURSIVE SumSeq(_)
SumSeq(s) ==
    IF s = <<>> THEN 0
    ELSE (IF Head(s) = NaN THEN 0 ELSE Head(s)) + SumSeq(Tail(s))

\* ascending order of a finite set of integers, as a sequence
RECURSIVE SortSet(_)
SortSet(S) ==
    IF S = {} THEN <<>>
    ELSE LET m == CHOOSE x \in S : \A y \in S : x <= y
         IN  <<m>> \o SortSet(S \ {m})

\* pd.to_datetime of one cell of an "object" column
ParseDate(cell) ==
    IF cell = NaN THEN NaT ELSE (cell \div 10) * TicksPerDay + (cell % 10)

\* pd.to_numeric(errors = 'coerce') of one cell of an "object" column
CoerceNumber(cell) == IF cell = BadText THEN NaN ELSE cell

\* pd.to_datetime(df[col]): a datetime column is returned as it is
to_datetime(df, col) ==
    IF df.dtypes[col] = "datetime" THEN Column(df, col)
    ELSE [i \in DOMAIN df.rows |-> ParseDate(df.rows[i][col])]

\* does pd.to_datetime raise on this column (some text is no date)
DateUnparseable(df, col) ==
    /\ df.dtypes[col] # "datetime"
    /\ \E i \in DOMAIN df.rows : df.rows[i][col] = BadText

\* pd.to_numeric(df[col], errors = 'coerce')
to_numeric(df, col) == [i \in DOMAIN df.rows |-> CoerceNumber(df.rows[i][col])]

\* variant: no row is removed
dropna_KeepsAll(df, col) == df

\* df.dropna(subset = [col])
dropna(df, col) == FilterRows(df, [i \in DOMAIN df.rows |-> df.rows[i][col] # NaN])

(***************************************************************************)
(* Exceptions and return values                                            *)
(***************************************************************************)
\* a message string: its fixed text and the values formatted into it
Str(text, args) == [kind |-> "str", text |-> text, args |-> args]

\* the outcome of a block of code: a value, or an exception of some class
Returned(v) == [raised |-> FALSE, exc |-> "", val |-> v]

Raised(class, text, args) == [raised |-> TRUE, exc |-> class, val |-> Str(text, args)]

\* the classes `except Exception` catches
ExceptionClasses == {"ValueError", "KeyError", "TypeError", "ParserError",
                     "IndexError", "UnboundLocalError", "AttributeError"}

(***************************************************************************)
(* DataProcessor: validation                                               *)
(***************************************************************************)
\* variant: every required column is reported as soon as one is missing
MissingRequired_AllRequired(required, df) ==
    IF \E i \in DOMAIN required : required[i] \notin df.cols THEN required ELSE <<>>

\* [col for col in required_columns if col not in df.columns]
MissingRequired(required, df) == SelectSeq(required, LAMBDA c : c \notin df.cols)

\* the numeric column of a validator, coerced unless it is numeric already
CoerceColumn(df, col) ==
    IF df.dtypes[col] = "number" THEN df
    ELSE SetColumn(df, col, "number", to_numeric(df, col))

validate_sales_data(df) ==
    LET missing_required == MissingRequired(<<"date", "revenue">>, df)
    IN  IF missing_required # <<>>
        THEN Raised("ValueError", "Missing required columns", missing_required)
        ELSE IF DateUnparseable(df, "date")
        THEN Raised("ValueError", "Invalid date format in 'date' column", <<>>)
        ELSE LET dated == SetColumn(df, "date", "datetime", to_datetime(df, "date"))
             IN  Returned(dropna(CoerceColumn(dated, "revenue"), "revenue"))

validate_expenses_data(df) ==
    LET missing_required == MissingRequired(<<"date", "amount", "category">>, df)
    IN  IF missing_required # <<>>
        THEN Raised("ValueError", "Missing required columns", missing_required)
        ELSE IF DateUnparseable(df, "date")
        THEN Raised("ValueError", "Invalid date format in 'date' column", <<>>)
        ELSE LET dated == SetColumn(df, "date", "datetime", to_datetime(df, "date"))
             IN  Returned(dropna(CoerceColumn(dated, "amount"), "amount"))

validate_inventory_data(df) ==
    LET missing_required ==
            MissingRequired(<<"product_id", "product_name", "current_stock",
                              "reorder_level">>, df)
    IN  IF missing_required # <<>>
        THEN Raised("ValueError", "Missing required columns", missing_required)
        ELSE Returned(CoerceColumn(CoerceColumn(df, "current_stock"), "reorder_level"))

\* pd.read_csv / pd.read_excel by the file name's extension
ReadFile(file) ==
    IF file.ext \in {"csv", "xlsx", "xls"}
    THEN IF file.readable THEN Returned(file.df)
         ELSE Raised("ParserError", "Error tokenizing data", <<>>)
    ELSE Raised("ValueError",
                "Unsupported file format. Please upload CSV or Excel files.", <<>>)

\* the try block of process_uploaded_file: what it assigns and how it ends
UploadBody(file, data_type) ==
    LET read == ReadFile(file)
        checked == CASE data_type = "sales" -> validate_sales_data(read.val)
                     [] data_type = "expenses" -> validate_expenses_data(read.val)
                     [] data_type = "inventory" -> validate_inventory_data(read.val)
                     [] OTHER -> Raised("ValueError", "Invalid data type specified", <<>>)
    IN  IF read.raised THEN [assign |-> "", df |-> None, end |-> read]
        ELSE IF checked.raised THEN [assign |-> "", df |-> None, end |-> checked]
        ELSE [assign |-> data_type, df |-> checked.val,
              end |-> Returned(<<checked.val, None>>)]

\* variant: the table is stored as read, before it is validated
process_uploaded_file_StoredBeforeValidation(file, data_type) ==
    LET body == UploadBody(file, data_type)
        read == ReadFile(file)
    IN  IF body.end.raised
        THEN [assign |-> IF read.raised THEN "" ELSE data_type,
              df |-> IF read.raised THEN None ELSE read.val,
              end |-> Returned(<<None, body.end.val>>)]
        ELSE body

\* variant: except ValueError as e, so any other exception leaves the handler
process_uploaded_file_ExceptValueError(file, data_type) ==
    LET body == UploadBody(file, data_type)
    IN  IF body.end.raised /\ body.end.exc = "ValueError"
        THEN [body EXCEPT !.end = Returned(<<None, body.end.val>>)]
        ELSE body

\* try ... except Exception as e: return None, str(e)
process_uploaded_file(file, data_type) ==
    LET body == UploadBody(file, data_type)
    IN  IF body.end.raised /\ body.end.exc \in ExceptionClasses
        THEN [body EXCEPT !.end = Returned(<<None, body.end.val>>)]
        ELSE body

(***************************************************************************)
(* Calendar and grouping                                                   *)
(***************************************************************************)
\* Timestamp.date(): the calendar day of a timestamp
DateOf(ts) == IF ts = NaT THEN NaT ELSE ts \div TicksPerDay

\* midnight of a calendar day, as a timestamp
Midnight(day) == IF day = NaT THEN NaT ELSE day * TicksPerDay

\* to_period('W').start_time: weeks run Monday to Sunday
WeekStart(ts) == IF ts = NaT THEN NaT ELSE Midnight((DateOf(ts) \div 7) * 7)

\* the first days of the months of 2024
MonthFirstDays == <<0, 31, 60, 91, 121, 152, 182, 213, 244, 274, 305, 335>>

\* Timestamp.month of a calendar day
MonthOf(day) ==
    CHOOSE m \in DOMAIN MonthFirstDays :
        /\ MonthFirstDays[m] <= day
        /\ (m = Len(MonthFirstDays) \/ day < MonthFirstDays[m + 1])

\* to_period('M').start_time
MonthStart(ts) == IF ts = NaT THEN NaT ELSE Midnight(MonthFirstDays[MonthOf(DateOf(ts))])

\* the group keys of a groupby over the key series: missing keys are
\* dropped, the rest sorted
GroupKeys(keys) == SortSet(Range(keys) \ {NaT})

\* variant: the aggregate of a group is its last cell
GroupAgg_Last(df, keys, k, valcol) ==
    LET cells == Column(FilterRows(df, [i \in DOMAIN df.rows |-> keys[i] = k]), valcol)
    IN  cells[Len(cells)]

\* the aggregate of one group: the sum of its cells in row order
GroupAgg(df, keys, k, valcol) ==
    SumSeq(Column(FilterRows(df, [i \in DOMAIN df.rows |-> keys[i] = k]), valcol))

\* df.groupby(keys)[valcol].sum().reset_index()
groupby_sum(df, keys, keycol, keydtype, valcol) ==
    LET ks == GroupKeys(keys)
        cs == {keycol, valcol}
    IN  DataFrame(cs,
                  [c \in cs |-> IF c = keycol THEN keydtype ELSE "number"],
                  [j \in 1..Len(ks) |->
                      [c \in cs |-> IF c = keycol THEN ks[j]
                                    ELSE GroupAgg(df, keys, ks[j], valcol)]])

\* the columns an operation reads, with the dtype it needs ("" for any)
RECURSIVE ReadError(_, _)
ReadError(df, needs) ==
    IF needs = <<>> THEN Returned(None)
    ELSE LET col == Head(needs)[1]
             dtype == Head(needs)[2]
         IN  IF col \notin df.cols THEN Raised("KeyError", "column", <<col>>)
             ELSE IF dtype # "" /\ df.dtypes[col] # dtype
             THEN Raised("TypeError", "unsupported operand", <<col>>)
             ELSE ReadError(df, Tail(needs))

(***************************************************************************)
(* DataProcessor: KPIs                                                     *)
(***************************************************************************)
GrowthWindowDays == 30

\* self.sales_data['date'].max()
MaxDate(df) ==
    LET ds == Range(Column(df, "date")) \ {NaT}
    IN  IF ds = {} THEN NaT ELSE CHOOSE d \in ds : \A e \in ds : e <= d

\* df[(df['date'] >= lo) & (df['date'] < hi)][valcol].sum(); a comparison
\* with NaT on either side is false
SumWhereDate(df, valcol, lo, hi) ==
    SumSeq(Column(FilterRows(df, [i \in DOMAIN df.rows |->
                                     /\ df.rows[i]["date"] # NaT
                                     /\ lo # NaT
                                     /\ df.rows[i]["date"] >= lo
                                     /\ df.rows[i]["date"] < hi]), valcol))

\* a bound above every timestamp, for a window with no upper end
NoUpperEnd(df) == MaxDate(df) + 1

\* the revenue summed over the last 30 days
last_30_days(df) ==
    LET current_date == MaxDate(df)
    IN  SumWhereDate(df, "revenue",
                     IF current_date = NaT THEN NaT
                     ELSE current_date - timedelta(GrowthWindowDays),
                     NoUpperEnd(df))

\* the revenue summed over the 30 days before them
prev_30_days(df) ==
    LET current_date == MaxDate(df)
    IN  SumWhereDate(df, "revenue",
                     IF current_date = NaT THEN NaT
                     ELSE current_date - timedelta(2 * GrowthWindowDays),
                     current_date - timedelta(GrowthWindowDays))

\* variant: the growth is computed without the test on the previous sum
revenue_growth_Unguarded(df) ==
    Rat((last_30_days(df) - prev_30_days(df)) * 100, prev_30_days(df))

revenue_growth(df) ==
    IF prev_30_days(df) > 0
    THEN Rat((last_30_days(df) - prev_30_days(df)) * 100, prev_30_days(df))
    ELSE RatInt(0)

\* df.groupby('date')[valcol].sum().mean(): the groups are the timestamps
avg_daily(df, valcol) ==
    LET daily == groupby_sum(df, Column(df, "date"), "date", "datetime", valcol)
    IN  IF Len(daily.rows) = 0 THEN RatNaN
        ELSE Rat(SumSeq(Column(daily, valcol)), Len(daily.rows))

\* df.groupby('category')['amount'].sum().to_dict()
expenses_by_category(df) ==
    [c \in Range(Column(df, "category")) |->
        SumSeq(Column(FilterRows(df, [i \in DOMAIN df.rows |->
                                        df.rows[i]["category"] = c]), "amount"))]

\* a strict comparison in place of <=
LowStock_Strict(df) ==
    FilterRows(df, [i \in DOMAIN df.rows |->
                       /\ df.rows[i]["current_stock"] # NaN
                       /\ df.rows[i]["reorder_level"] # NaN
                       /\ df.rows[i]["current_stock"] < df.rows[i]["reorder_level"]])

\* the rows with current_stock <= reorder_level (a NaN compares false)
LowStock(df) ==
    FilterRows(df, [i \in DOMAIN df.rows |->
                       /\ df.rows[i]["current_stock"] # NaN
                       /\ df.rows[i]["reorder_level"] # NaN
                       /\ df.rows[i]["current_stock"] <= df.rows[i]["reorder_level"]])

\* variant: the total is the revenue of the first row
RevenueKpis_FirstRow(s) ==
    [total_revenue |-> IF Len(s.rows) = 0 THEN 0 ELSE s.rows[1]["revenue"],
     avg_daily_revenue |-> avg_daily(s, "revenue"),
     revenue_growth |-> revenue_growth(s)]

\* kpis['total_revenue'], kpis['avg_daily_revenue'], kpis['revenue_growth']
RevenueKpis(s) ==
    [total_revenue |-> SumSeq(Column(s, "revenue")),
     avg_daily_revenue |-> avg_daily(s, "revenue"),
     revenue_growth |-> revenue_growth(s)]

ExpenseKpis(e) ==
    [total_expenses |-> SumSeq(Column(e, "amount")),
     avg_daily_expenses |-> avg_daily(e, "amount"),
     expenses_by_category |-> expenses_by_category(e)]

\* kpis['profit_margin'], kpis['total_profit']
ProfitKpis(s, e) ==
    LET total_revenue == SumSeq(Column(s, "revenue"))
        total_profit == total_revenue - SumSeq(Column(e, "amount"))
    IN  [profit_margin |-> IF total_revenue > 0
                           THEN Rat(total_profit * 100, total_revenue) ELSE RatInt(0),
         total_profit |-> total_profit]

InventoryKpis(i) ==
    [total_products |-> Len(i.rows),
     low_stock_items |-> Len(LowStock(i).rows),
     total_inventory_value |-> SumSeq(Column(i, "current_stock"))]

SalesNeeds == <<(<<"revenue", "number">>), (<<"date", "datetime">>)>>

ExpensesNeeds == <<(<<"amount", "number">>), (<<"date", "">>), (<<"category", "">>)>>

InventoryNeeds == <<(<<"current_stock", "number">>), (<<"reorder_level", "number">>)>>

\* the first exception calculate_kpis meets on the loaded tables, if any
KpiError(s, e, i) ==
    LET es == IF IsNone(s) THEN Returned(None) ELSE ReadError(s, SalesNeeds)
        ee == IF IsNone(e) THEN Returned(None) ELSE ReadError(e, ExpensesNeeds)
        ei == IF IsNone(i) THEN Returned(None) ELSE ReadError(i, InventoryNeeds)
    IN  IF es.raised THEN es ELSE IF ee.raised THEN ee ELSE ei

calculate_kpis(s, e, i) ==
    IF KpiError(s, e, i).raised THEN KpiError(s, e, i)
    ELSE Returned((IF IsNone(s) THEN <<>> ELSE RevenueKpis(s))
               @@ (IF IsNone(e) THEN <<>> ELSE ExpenseKpis(e))
               @@ (IF IsNone(s) \/ IsNone(e) THEN <<>> ELSE ProfitKpis(s, e))
               @@ (IF IsNone(i) THEN <<>> ELSE InventoryKpis(i)))

(***************************************************************************)
(* DataProcessor: queries                                                  *)
(***************************************************************************)
\* the two period granularities that add a period column to the table
PeriodStart(period, ts) == IF period = "weekly" THEN WeekStart(ts) ELSE MonthStart(ts)

PeriodColumn(period) == IF period = "weekly" THEN "week" ELSE "month"

\* self.sales_data[col] = self.sales_data['date'].dt.to_period(...)
WithPeriodColumn(s, period) ==
    SetColumn(s, PeriodColumn(period), "period",
              [i \in DOMAIN s.rows |-> PeriodStart(period, s.rows[i]["date"])])

\* get_revenue_trend_data: the table it leaves in self.sales_data and how it ends
get_revenue_trend_data(s, period) ==
    IF IsNone(s) THEN [sales |-> s, end |-> Returned(None)]
    ELSE IF period = "daily"
    THEN [sales |-> s,
          end |-> Returned(groupby_sum(s, Column(s, "date"),
                                       "date", "datetime", "revenue"))]
    ELSE IF period \in {"weekly", "monthly"}
    THEN LET col == PeriodColumn(period)
             marked == WithPeriodColumn(s, period)
             trend_data == groupby_sum(marked, Column(marked, col),
                                       col, "period", "revenue")
         IN  [sales |-> marked,
              end |-> Returned(SetColumn(trend_data, "date", "datetime",
                                         Column(trend_data, col)))]
    ELSE [sales |-> s,
          end |-> Raised("UnboundLocalError",
                         "local variable 'trend_data' referenced before assignment", <<>>)]

get_expense_breakdown(e) ==
    IF IsNone(e) THEN Returned(None) ELSE Returned(expenses_by_category(e))

\* df[[c1, c2, ...]]: the projection on some columns
Project(df, cs) ==
    DataFrame(cs, [c \in cs |-> df.dtypes[c]],
              [i \in DOMAIN df.rows |-> [c \in cs |-> df.rows[i][c]]])

get_low_stock_alerts(i) ==
    IF IsNone(i) THEN Returned(None)
    ELSE Returned(Project(LowStock(i),
                          {"product_id", "product_name", "current_stock", "reorder_level"}))

export_data_summary(s, e, i) ==
    IF calculate_kpis(s, e, i).raised THEN calculate_kpis(s, e, i)
    ELSE Returned(
           [data_loaded |-> [sales |-> ~IsNone(s), expenses |-> ~IsNone(e),
                             inventory |-> ~IsNone(i)],
            kpis |-> calculate_kpis(s, e, i).val]
        @@ (IF IsNone(s) THEN <<>>
            ELSE [sales_summary |-> [total_records |-> Len(s.rows),
                                     date_range |-> <<MaxDate(s)>>]])
        @@ (IF IsNone(e) THEN <<>>
            ELSE [expenses_summary |-> [total_records |-> Len(e.rows),
                                        categories |-> Range(Column(e, "category"))]])
        @@ (IF IsNone(i) THEN <<>>
            ELSE [inventory_summary |->
                     [total_products |-> Len(i.rows),
                      low_stock_count |-> Len(get_low_stock_alerts(i).val.rows)]]))

(***************************************************************************)
(* The session of a DataProcessor: uploads and queries                     *)
(***************************************************************************)
\* the text of a date: day and time of day (0 midnight, 1 noon)
DateText(day, tod) == day * 10 + tod

SalesCsv ==
    DataFrame({"date", "revenue"},
              [date |-> "object", revenue |-> "number"],
              << [date |-> DateText(0, 0), revenue |-> 10],
                 [date |-> DateText(0, 1), revenue |-> 5],
                 [date |-> DateText(40, 0), revenue |-> 20] >>)

SalesXlsx ==
    DataFrame({"date", "revenue", "product_id", "quantity"},
              [date |-> "object", revenue |-> "object",
               product_id |-> "object", quantity |-> "number"],
              << [date |-> DateText(33, 0), revenue |-> 7, product_id |-> "P1", quantity |-> 2],
                 [date |-> DateText(5, 0), revenue |-> BadText, product_id |-> "P2", quantity |-> 1],
                 [date |-> NaN, revenue |-> 4, product_id |-> "P1", quantity |-> 1],
                 [date |-> DateText(2, 1), revenue |-> 3, product_id |-> "P2", quantity |-> 4] >>)

SalesNoRevenue ==
    DataFrame({"date", "product_id"},
              [date |-> "object", product_id |-> "object"],
              << [date |-> BadText, product_id |-> "P1"] >>)

SalesBadDate ==
    DataFrame({"date", "revenue"},
              [date |-> "object", revenue |-> "number"],
              << [date |-> DateText(1, 0), revenue |-> 3],
                 [date |-> BadText, revenue |-> 4] >>)

ExpensesCsv ==
    DataFrame({"date", "amount", "category"},
              [date |-> "object", amount |-> "object", category |-> "object"],
              << [date |-> DateText(1, 0), amount |-> 4, category |-> "rent"],
                 [date |-> DateText(1, 1), amount |-> 6, category |-> "food"],
                 [date |-> DateText(2, 0), amount |-> BadText, category |-> "food"],
                 [date |-> DateText(3, 0), amount |-> 2, category |-> "rent"] >>)

ExpensesNoCategory ==
    DataFrame({"date", "amount"},
              [date |-> "object", amount |-> "number"],
              << [date |-> DateText(1, 0), amount |-> 4] >>)

InventoryCsv ==
    DataFrame({"product_id", "product_name", "current_stock", "reorder_level"},
              [product_id |-> "object", product_name |-> "object",
               current_stock |-> "object", reorder_level |-> "number"],
              << [product_id |-> "P1", product_name |-> "Widget",
                  current_stock |-> 8, reorder_level |-> 10],
                 [product_id |-> "P2", product_name |-> "Gadget",
                  current_stock |-> 25, reorder_level |-> 20],
                 [product_id |-> "P3", product_name |-> "Bolt",
                  current_stock |-> BadText, reorder_level |-> 5] >>)

UploadedFile(ext, readable, df) == [ext |-> ext, readable |-> readable, df |-> df]

UploadFiles ==
    { UploadedFile("csv", TRUE, SalesCsv), UploadedFile("xlsx", TRUE, SalesXlsx),
      UploadedFile("csv", TRUE, SalesNoRevenue), UploadedFile("xls", TRUE, SalesBadDate),
      UploadedFile("csv", TRUE, ExpensesCsv), UploadedFile("csv", TRUE, ExpensesNoCategory),
      UploadedFile("xlsx", TRUE, InventoryCsv),
      UploadedFile("txt", TRUE, SalesCsv), UploadedFile("csv", FALSE, SalesCsv) }

DataTypes == {"sales", "expenses", "inventory", "suppliers"}

Periods == {"daily", "weekly", "monthly", "yearly"}

\* what the last call was, with its argument, and how it ended
Call(op, arg, end) == [op |-> op, arg |-> arg, end |-> end]

NoForecasts == [revenue |-> None, expenses |-> None, inventory |-> None]

Init ==
    /\ sales_data = None
    /\ expenses_data = None
    /\ inventory_data = None
    /\ forecast_data = NoForecasts
    /\ ret = Call("__init__", "", Returned(None))

ProcessUploadedFile(file, data_type) ==
    LET out == process_uploaded_file(file, data_type)
    IN  /\ sales_data' = IF out.assign = "sales" THEN out.df ELSE sales_data
        /\ expenses_data' = IF out.assign = "expenses" THEN out.df ELSE expenses_data
        /\ inventory_data' = IF out.assign = "inventory" THEN out.df ELSE inventory_data
        /\ ret' = Call("process_uploaded_file", <<file, data_type>>, out.end)
        /\ UNCHANGED forecast_data

CalculateKpis ==
    /\ ret' = Call("calculate_kpis", "",
                   calculate_kpis(sales_data, expenses_data, inventory_data))
    /\ UNCHANGED <<sales_data, expenses_data, inventory_data, forecast_data>>

GetRevenueTrendData(period) ==
    LET out == get_revenue_trend_data(sales_data, period)
    IN  /\ sales_data' = out.sales
        /\ ret' = Call("get_revenue_trend_data", period, out.end)
        /\ UNCHANGED <<expenses_data, inventory_data, forecast_data>>

GetExpenseBreakdown ==
    /\ ret' = Call("get_expense_breakdown", "", get_expense_breakdown(expenses_data))
    /\ UNCHANGED <<sales_data, expenses_data, inventory_data, forecast_data>>

GetLowStockAlerts ==
    /\ ret' = Call("get_low_stock_alerts", "", get_low_stock_alerts(inventory_data))
    /\ UNCHANGED <<sales_data, expenses_data, inventory_data, forecast_data>>

ExportDataSummary ==
    /\ ret' = Call("export_data_summary", "",
                   export_data_summary(sales_data, expenses_data, inventory_data))
    /\ UNCHANGED <<sales_data, expenses_data, inventory_data, forecast_data>>

Upload == \E file \in UploadFiles, data_type \in DataTypes : ProcessUploadedFile(file, data_type)

Trend == \E period \in Periods : GetRevenueTrendData(period)

Next ==
    \/ Upload
    \/ CalculateKpis
    \/ Trend
    \/ GetExpenseBreakdown
    \/ GetLowStockAlerts
    \/ ExportDataSummary

Spec == Init /\ [][Next]_vars

(***************************************************************************)
(* Claims on the DataProcessor session (specification Spec)                *)
(***************************************************************************)
RevenueGroup == {"total_revenue", "avg_daily_revenue", "revenue_growth"}

ExpenseGroup == {"total_expenses", "avg_daily_expenses", "expenses_by_category"}

ProfitGroup == {"total_profit", "profit_margin"}

InventoryGroup == {"total_products", "low_stock_items", "total_inventory_value"}

ExpectedKpiKeys ==
    (IF IsNone(sales_data) THEN {} ELSE RevenueGroup)
    \cup (IF IsNone(expenses_data) THEN {} ELSE ExpenseGroup)
    \cup (IF IsNone(sales_data) \/ IsNone(expenses_data) THEN {} ELSE ProfitGroup)
    \cup (IF IsNone(inventory_data) THEN {} ELSE InventoryGroup)

\* C1: after any sequence of successful and failed uploads calculate_kpis does
\* not raise, and the keys of its snapshot are exactly the revenue group iff
\* sales is loaded, the expense group iff expenses is loaded, total_profit and
\* profit_margin iff both are loaded, the inventory group iff inventory is
\* loaded (so the snapshot is empty when nothing is loaded).
C1_KpiGroupsFollowLoadedTables ==
    ret.op = "calculate_kpis" =>
        /\ ~ret.end.raised
        /\ DOMAIN ret.end.val = ExpectedKpiKeys

C1_Witness ==
    /\ ret.op = "calculate_kpis"
    /\ ~IsNone(sales_data)
    /\ IsNone(expenses_data)
    /\ ~IsNone(inventory_data)
    /\ DOMAIN ret.end.val = RevenueGroup \cup InventoryGroup

\* C2: process_uploaded_file never raises; it returns a pair of which exactly
\* one component is None: (table, None) on success, (None, message) on
\* every failure.
C2_UploadReturnsTableOrMessage ==
    ret.op = "process_uploaded_file" =>
        /\ ~ret.end.raised
        /\ Len(ret.end.val) = 2
        /\ IsNone(ret.end.val[1]) # IsNone(ret.end.val[2])
        /\ ret.end.val[1].kind \in {"DataFrame", "None"}
        /\ ret.end.val[2].kind \in {"str", "None"}

C2_Witness ==
    /\ ret.op = "process_uploaded_file"
    /\ IsNone(ret.end.val[1])
    /\ ret.end.val[2].text = "Error tokenizing data"
    /\ ~IsNone(sales_data)

\* C10: the loaded tables are changed only by uploads: every call of a
\* computation or query function leaves each loaded table with the same
\* columns, rows and values.
C10_OnlyUploadsChangeTables ==
    [][ret'.op # "process_uploaded_file" =>
           UNCHANGED <<sales_data, expenses_data, inventory_data>>]_vars

(***************************************************************************)
(* KPIs of bounded sales tables (specification SpecKpi)                    *)
(***************************************************************************)
MaxKpiRows == 3

\* days on both sides of the two window ends, for a latest day of 31 or 61
KpiDays == {0, 1, 31, 61}

TimesOfDay == {0, 1}

KpiRevenues == {0, 2}

\* a validated sales table with the required columns only
SalesTable(rows) ==
    DataFrame({"date", "revenue"}, [date |-> "datetime", revenue |-> "number"], rows)

SalesRow(day, tod, revenue) == [date |-> Midnight(day) + tod, revenue |-> revenue]

KpiSalesRows == {SalesRow(d, t, r) : d \in KpiDays, t \in TimesOfDay, r \in KpiRevenues}

KpiSalesTables ==
    {SalesTable(rows) : rows \in UNION {[1..n -> KpiSalesRows] : n \in 0..MaxKpiRows}}

InitKpi ==
    /\ sales_data \in KpiSalesTables
    /\ expenses_data = None
    /\ inventory_data = None
    /\ forecast_data = NoForecasts
    /\ ret = Call("__init__", "", Returned(None))

NextKpi == CalculateKpis

SpecKpi == InitKpi /\ [][NextKpi]_vars

\* the revenue summed over the rows whose calendar day lies in lo..hi
RECURSIVE RevenueOfDays(_, _, _)
RevenueOfDays(rows, lo, hi) ==
    IF rows = <<>> THEN 0
    ELSE (IF DateOf(Head(rows)["date"]) \in lo..hi THEN Head(rows)["revenue"] ELSE 0)
         + RevenueOfDays(Tail(rows), lo, hi)

LastDay == DateOf(MaxDate(sales_data))

\* the 30 calendar days ending at and including the latest day
RecentWindowRevenue == RevenueOfDays(sales_data.rows, LastDay - 29, LastDay)

\* the 30 calendar days immediately before them
PriorWindowRevenue == RevenueOfDays(sales_data.rows, LastDay - 59, LastDay - 30)

\* C6: revenue_growth compares two disjoint windows of exactly 30 calendar
\* days each, the recent one ending at and including the table's latest date
\* and the prior one immediately before it; when the prior sum is positive the
\* growth is (recent - prior) / prior * 100.
C6_GrowthOverThirtyDayWindows ==
    (ret.op = "calculate_kpis" /\ Len(sales_data.rows) > 0 /\ PriorWindowRevenue > 0) =>
        ret.end.val.revenue_growth =
            Rat((RecentWindowRevenue - PriorWindowRevenue) * 100, PriorWindowRevenue)

\* the rows the code's `prev_30_days` mask selects: a timestamp at least 60
\* days and more than 30 days before the latest timestamp
RECURSIVE RevenueBetween(_, _, _)
RevenueBetween(rows, lo, hi) ==
    IF rows = <<>> THEN 0
    ELSE (IF lo <= Head(rows)["date"] /\ Head(rows)["date"] < hi
          THEN Head(rows)["revenue"] ELSE 0)
         + RevenueBetween(Tail(rows), lo, hi)

PriorSumIsZero ==
    RevenueBetween(sales_data.rows, MaxDate(sales_data) - timedelta(60),
                   MaxDate(sales_data) - timedelta(30)) = 0

FirstDay == CHOOSE d \in {DateOf(r["date"]) : r \in Range(sales_data.rows)} :
                \A r \in Range(sales_data.rows) : d <= DateOf(r["date"])

\* the table's dates span fewer than 60 calendar days and no revenue lies in
\* the 30 calendar days before the recent ones
ShortSpanNoPriorRevenue ==
    /\ Len(sales_data.rows) > 0
    /\ LastDay - FirstDay + 1 < 60
    /\ PriorWindowRevenue = 0

PeriodKeys(data, date_col, period) ==
    [i \in DOMAIN data.rows |->
        IF period = "daily" THEN DateOf(data.rows[i][date_col])
        ELSE PeriodStart(period, data.rows[i][date_col])]

\* a cell of the resampled date column as a timestamp: daily points hold
\* calendar days, weekly and monthly points hold the period's start time
PointTimestamp(df, date_col, i) ==
    IF df.dtypes[date_col] = "date" THEN Midnight(df.rows[i][date_col])
    ELSE df.rows[i][date_col]

\* the rows in ascending order of col; equal keys keep their order
RECURSIVE SortRows(_, _)
SortRows(rows, col) ==
    IF rows = <<>> THEN <<>>
    ELSE LET m == CHOOSE i \in DOMAIN rows :
                      /\ \A j \in DOMAIN rows : rows[i][col] <= rows[j][col]
                      /\ \A j \in 1..(i - 1) : rows[j][col] # rows[i][col]
         IN  <<rows[m]>> \o SortRows(SubSeq(rows, 1, m - 1) \o SubSeq(rows, m + 1, Len(rows)), col)

\* df.sort_values(col).reset_index(drop = True)
sort_values(df, col) == [df EXCEPT !.rows = SortRows(df.rows, col)]

\* variant: time_index counts from 1
TimeIndex_FromOne(n) == [i \in 1..n |-> i]

\* range(len(grouped_data))
TimeIndex(n) == [i \in 1..n |-> i - 1]

\* the time-based features added to the grouped table
WithTimeFeatures(grouped, date_col) ==
    LET idx == DOMAIN grouped.rows
        day(i) == DateOf(PointTimestamp(grouped, date_col, i))
        f1 == SetColumn(grouped, "time_index", "number", TimeIndex(Len(grouped.rows)))
        f2 == SetColumn(f1, "day_of_week", "number", [i \in idx |-> day(i) % 7])
        f3 == SetColumn(f2, "month", "number", [i \in idx |-> MonthOf(day(i))])
    IN  SetColumn(f3, "quarter", "number", [i \in idx |-> (MonthOf(day(i)) - 1) \div 3 + 1])

\* prepare_time_series_data: the table it leaves in its argument and what it
\* returns (None after any exception, which it reports and swallows)
prepare_time_series_data(data, date_col, value_col, period) ==
    IF date_col \notin data.cols \/ DateUnparseable(data, date_col)
    THEN [data |-> data, end |-> Returned(None)]
    ELSE LET dated == SetColumn(data, date_col, "datetime", to_datetime(data, date_col))
         IN  IF period \notin {"daily", "weekly", "monthly"}
                \/ value_col \notin dated.cols
                \/ dated.dtypes[value_col] # "number"
             THEN [data |-> dated, end |-> Returned(None)]
             ELSE LET grouped_data ==
                          groupby_sum(dated, PeriodKeys(dated, date_col, period), date_col,
                                      IF period = "daily" THEN "date" ELSE "datetime",
                                      value_col)
                  IN  [data |-> dated,
                       end |-> Returned(WithTimeFeatures(sort_values(grouped_data, date_col),
                                                         date_col))]

(***************************************************************************)
(* BusinessForecasting: revenue                                            *)
(***************************************************************************)
MinDataPoints == 7

RECURSIVE SumOf(_)
SumOf(s) == IF s = <<>> THEN 0 ELSE Head(s) + SumOf(Tail(s))

RECURSIVE RatSum(_)
RatSum(s) == IF s = <<>> THEN RatInt(0) ELSE RatAdd(Head(s), RatSum(Tail(s)))

\* the power sums of the normal equations
Moment(xs, ys, p, q) ==
    SumOf([i \in DOMAIN xs |-> (IF p = 0 THEN 1 ELSE IF p = 1 THEN xs[i]
                                ELSE IF p = 2 THEN xs[i] * xs[i]
                                ELSE IF p = 3 THEN xs[i] * xs[i] * xs[i]
                                ELSE xs[i] * xs[i] * xs[i] * xs[i])
                               * (IF q = 0 THEN 1 ELSE ys[i])])

Det3(m) ==
      m[1][1] * (m[2][2] * m[3][3] - m[2][3] * m[3][2])
    - m[1][2] * (m[2][1] * m[3][3] - m[2][3] * m[3][1])
    + m[1][3] * (m[2][1] * m[3][2] - m[2][2] * m[3][1])

\* variant: the line is fitted through the origin (fit_intercept = False)
LinearFit_NoIntercept(xs, ys) ==
    <<RatInt(0), Rat(Moment(xs, ys, 1, 1), Moment(xs, ys, 2, 0)), RatInt(0)>>

\* LinearRegression().fit(X, y): the least-squares line, as the coefficients
\* <<c0, c1, c2>> of c0 + c1 * x + c2 * x^2 with c2 = 0
LinearFit(xs, ys) ==
    LET n == Len(xs)
        slope == Rat(n * Moment(xs, ys, 1, 1) - Moment(xs, ys, 1, 0) * Moment(xs, ys, 0, 1),
                     n * Moment(xs, ys, 2, 0) - Moment(xs, ys, 1, 0) * Moment(xs, ys, 1, 0))
        intercept == RatDiv(RatSub(RatInt(Moment(xs, ys, 0, 1)),
                                   RatMul(slope, RatInt(Moment(xs, ys, 1, 0)))),
                            RatInt(n))
    IN  <<intercept, slope, RatInt(0)>>

\* PolynomialFeatures(degree = 2) then LinearRegression().fit: the
\* least-squares parabola, by Cramer's rule on the normal equations
PolynomialFit(xs, ys) ==
    LET S(p) == Moment(xs, ys, p, 0)
        T(p) == Moment(xs, ys, p, 1)
        A == << <<S(0), S(1), S(2)>>, <<S(1), S(2), S(3)>>, <<S(2), S(3), S(4)>> >>
        B == <<T(0), T(1), T(2)>>
        Replaced(k) == [r \in 1..3 |-> [c \in 1..3 |-> IF c = k THEN B[r] ELSE A[r][c]]]
    IN  [k \in 1..3 |-> Rat(Det3(Replaced(k)), Det3(A))]

\* variant: the intercept is left out of the prediction
Predict_NoIntercept(coef, x) ==
    RatAdd(RatMul(coef[2], RatInt(x)), RatMul(coef[3], RatInt(x * x)))

\* model.predict at one time index
Predict(coef, x) ==
    RatAdd(coef[1], RatAdd(RatMul(coef[2], RatInt(x)), RatMul(coef[3], RatInt(x * x))))

\* variant: the predictions are used as the model gives them
ClampPrediction_Unclamped(p) == p

\* np.maximum(predictions, 0)
ClampPrediction(p) == RatMax(p, RatInt(0))

\* mean_absolute_error(y, train_predictions)
mean_absolute_error(ys, preds) ==
    RatDiv(RatSum([i \in DOMAIN ys |-> RatAbs(RatSub(RatInt(ys[i]), preds[i]))]),
           RatInt(Len(ys)))

\* r2_score(y, train_predictions): 1 - SS_res / SS_tot; on a constant series
\* it is 1 for a perfect fit and 0 otherwise
r2_score(ys, preds) ==
    LET res == RatSum([i \in DOMAIN ys |->
                   RatMul(RatSub(RatInt(ys[i]), preds[i]), RatSub(RatInt(ys[i]), preds[i]))])
        n == Len(ys)
        tot == Rat(n * SumOf([i \in DOMAIN ys |-> ys[i] * ys[i]]) - SumOf(ys) * SumOf(ys), n)
    IN  IF tot.num = 0 THEN (IF res.num = 0 THEN RatInt(1) ELSE RatInt(0))
        ELSE RatSub(RatInt(1), RatDiv(res, tot))

\* variant: the future dates start at the last observed date
FutureDate_FromLastDate(last_date, i) == last_date + i - 1

\* last_date + timedelta(days = i + 1) for the i-th of range(forecast_periods),
\* counted from 1
FutureDate(last_date, i) == last_date + i

\* the fixed relative half-width of the revenue confidence band, in percent
RevenueBandPercent == 15

\* forecast_revenue past its two data checks: fit, predict, measure
RevenueForecast(ts_data, forecast_periods, model_type) ==
    LET X == Column(ts_data, "time_index")
        y == Column(ts_data, "revenue")
        coef == IF model_type = "polynomial" THEN PolynomialFit(X, y) ELSE LinearFit(X, y)
        last_time_index == X[Len(X)]
        last_date == ts_data.rows[Len(ts_data.rows)]["date"]
        predictions == [i \in 1..forecast_periods |->
                           ClampPrediction(Predict(coef, last_time_index + i))]
        train_predictions == [i \in DOMAIN X |-> Predict(coef, X[i])]
        forecast_df ==
            DataFrame({"date", "predicted_revenue", "confidence_lower", "confidence_upper"},
                      [date |-> "date", predicted_revenue |-> "number",
                       confidence_lower |-> "number", confidence_upper |-> "number"],
                      [i \in 1..forecast_periods |->
                          [date |-> FutureDate(last_date, i),
                           predicted_revenue |-> predictions[i],
                           confidence_lower |->
                               RatMul(predictions[i], Rat(100 - RevenueBandPercent, 100)),
                           confidence_upper |->
                               RatMul(predictions[i], Rat(100 + RevenueBandPercent, 100))]])
    IN  [kind |-> "forecast",
         historical |-> ts_data,
         forecast |-> forecast_df,
         metrics |-> [mae |-> mean_absolute_error(y, train_predictions),
                      r2 |-> r2_score(y, train_predictions),
                      model_type |-> model_type]]

\* forecast_revenue: the table it leaves in its argument, what it stores in
\* self.forecast_data['revenue'] (None: nothing), and the pair it returns
forecast_revenue(sales, forecast_periods, model_type) ==
    IF IsNone(sales) \/ Len(sales.rows) < MinDataPoints
    THEN [data |-> sales, store |-> None,
          end |-> Returned(<<None, Str("Insufficient data for forecasting (minimum 7 data points required)", <<>>)>>)]
    ELSE LET prep == prepare_time_series_data(sales, "date", "revenue", "daily")
             ts_data == prep.end.val
         IN  IF IsNone(ts_data) \/ Len(ts_data.rows) < MinDataPoints
             THEN [data |-> prep.data, store |-> None,
                   end |-> Returned(<<None, Str("Unable to prepare time series data", <<>>)>>)]
             ELSE IF forecast_periods < 1
             THEN \* model.predict refuses the empty, one-dimensional future_indices
                  [data |-> prep.data, store |-> None,
                   end |-> Returned(<<None, Str("Error in revenue forecasting",
                                                <<"Expected 2D array, got 1D array instead">>)>>)]
             ELSE LET stored == RevenueForecast(ts_data, forecast_periods, model_type)
                  IN  [data |-> prep.data, store |-> stored,
                       end |-> Returned(<<stored.forecast, None>>)]

(***************************************************************************)
(* Resampling of bounded tables (specification SpecResample)               *)
(***************************************************************************)
MaxResampleRows == 3

\* <<day, time of day>>: two stamps on one day, days on both sides of a week
\* end (6 | 7) and of a month end (31 is February 1st)
ResampleStamps == {<<0, 0>>, <<0, 1>>, <<6, 0>>, <<7, 1>>, <<31, 0>>}

ResampleRevenues == {1, 2}

ResampleRows == {SalesRow(st[1], st[2], r) : st \in ResampleStamps, r \in ResampleRevenues}

ResampleTables ==
    {SalesTable(rows) : rows \in UNION {[1..n -> ResampleRows] : n \in 0..MaxResampleRows}}

InitResample ==
    /\ sales_data \in ResampleTables
    /\ expenses_data = None
    /\ inventory_data = None
    /\ forecast_data = NoForecasts
    /\ ret = Call("__init__", "", Returned(None))

PrepareTimeSeriesData(period) ==
    LET out == prepare_time_series_data(sales_data, "date", "revenue", period)
    IN  /\ sales_data' = out.data
        /\ ret' = Call("prepare_time_series_data", period, out.end)
        /\ UNCHANGED <<expenses_data, inventory_data, forecast_data>>

NextResample == \E period \in Periods : PrepareTimeSeriesData(period)

SpecResample == InitResample /\ [][NextResample]_vars

Resampled == ret.op = "prepare_time_series_data" /\ ret.arg \in {"daily", "weekly", "monthly"}

\* the period bucket of a timestamp, as the resampled date names it
BucketOf(period, ts) ==
    IF period = "daily" THEN DateOf(ts)
    ELSE IF period = "weekly" THEN Midnight(DateOf(ts) - (DateOf(ts) % 7))
    ELSE Midnight(MonthFirstDays[MonthOf(DateOf(ts))])

Buckets == {BucketOf(ret.arg, r["date"]) : r \in Range(sales_data.rows)}

\* C8: for every table and every period in {daily, weekly, monthly} the
\* sequence prepare_time_series_data returns has exactly one point per period
\* bucket, is sorted by date strictly ascending (so no two points share a
\* date), and has time_index 0, 1, ..., n-1 in that order.
C8_OnePointPerBucketInOrder ==
    Resampled =>
        /\ ret.end.val.kind = "DataFrame"
        /\ LET pts == ret.end.val.rows
           IN  /\ {pts[i]["date"] : i \in DOMAIN pts} = Buckets
               /\ Len(pts) = Cardinality(Buckets)
               /\ \A i, j \in DOMAIN pts : i < j => pts[i]["date"] < pts[j]["date"]
               /\ \A i \in DOMAIN pts : pts[i]["time_index"] = i - 1

C8_Witness ==
    /\ Resampled
    /\ ret.arg = "weekly"
    /\ Len(sales_data.rows) = 3
    /\ Len(ret.end.val.rows) = 2
    /\ sales_data.rows[1]["date"] > sales_data.rows[2]["date"]

Permuted(df, p) == [df EXCEPT !.rows = [i \in DOMAIN df.rows |-> df.rows[p[i]]]]

\* C9: resampling does not depend on row order: for every table and every
\* permutation of its rows prepare_time_series_data returns the same points
\* (dates, time indices, aggregated values) for the permuted table.
C9_ResamplingIgnoresRowOrder ==
    Resampled =>
        \A p \in Permutations(DOMAIN sales_data.rows) :
            prepare_time_series_data(Permuted(sales_data, p), "date", "revenue", ret.arg).end
                = ret.end

C9_Witness ==
    /\ Resampled
    /\ ret.arg = "daily"
    /\ Len(sales_data.rows) = 3
    /\ Len(ret.end.val.rows) = 2
    /\ sales_data.rows[1]["date"] > sales_data.rows[3]["date"]
    /\ DateOf(sales_data.rows[1]["date"]) = DateOf(sales_data.rows[2]["date"])
    /\ sales_data.rows[1]["revenue"] # sales_data.rows[2]["revenue"]

(***************************************************************************)
(* Revenue forecasts of bounded histories (specification SpecRevenue)      *)
(***************************************************************************)
MaxHistoryRows == 7

MaxHorizon == 2

\* the lengths of the histories: none, one row short of the minimum, and
\* from the minimum up
HistoryLengths == {0, MinDataPoints - 1} \cup (MinDataPoints..MaxHistoryRows)

\* how the revenue runs over the rows of a history
HistoryShapes == {"zero", "flat", "rising", "falling", "hill", "valley", "spike", "saw"}

\* the revenue of row i of n
ShapeRevenue(shape, n, i) ==
    CASE shape = "zero" -> 0
      [] shape = "flat" -> 3
      [] shape = "rising" -> i
      [] shape = "falling" -> 2 * (n - i)
      [] shape = "hill" -> i * (2 * n + 3 - 2 * i)
      [] shape = "valley" -> (i - 3) * (i - 3)
      [] shape = "spike" -> IF i = 2 THEN 9 ELSE 0
      [] OTHER -> 3 * (i % 2)

\* how the rows of a history are dated: one row per day in or against row
\* order, one row every second day, or all rows on one day
HistoryLayouts == {"consecutive", "reversed", "gapped", "sameday"}

LayoutDay(layout, n, i) ==
    CASE layout = "consecutive" -> i - 1
      [] layout = "reversed" -> n - i
      [] layout = "gapped" -> 2 * (i - 1)
      [] OTHER -> 0

HistoryTables ==
    UNION {{SalesTable([i \in 1..n |->
                           SalesRow(LayoutDay(layout, n, i), 0, ShapeRevenue(shape, n, i))]) :
               shape \in HistoryShapes, layout \in HistoryLayouts} :
           n \in HistoryLengths}

\* the end-to-end scenario: 10 consecutive daily rows, revenue 100, 110, ...,
\* 190, forecast 5 periods ahead with the linear model
Scenario ==
    [sales |-> SalesTable([i \in 1..10 |-> SalesRow(i - 1, 0, 90 + 10 * i)]),
     forecast_periods |-> 5,
     model_type |-> "linear"]

Horizons == 0..MaxHorizon

ModelTypes == {"linear", "polynomial"}

InitRevenue ==
    /\ sales_data \in HistoryTables \cup {Scenario.sales}
    /\ expenses_data = None
    /\ inventory_data = None
    /\ forecast_data = NoForecasts
    /\ ret = Call("__init__", "", Returned(None))

ForecastRevenue(forecast_periods, model_type) ==
    LET out == forecast_revenue(sales_data, forecast_periods, model_type)
    IN  /\ sales_data' = out.data
        /\ forecast_data' = IF IsNone(out.store) THEN forecast_data
                            ELSE [forecast_data EXCEPT !.revenue = out.store]
        /\ ret' = Call("forecast_revenue", <<forecast_periods, model_type>>, out.end)
        /\ UNCHANGED <<expenses_data, inventory_data>>

\* the scenario's call, on the scenario's table
ForecastScenario ==
    /\ sales_data = Scenario.sales
    /\ ForecastRevenue(Scenario.forecast_periods, Scenario.model_type)

NextRevenue ==
    \/ \E forecast_periods \in Horizons, model_type \in ModelTypes :
           ForecastRevenue(forecast_periods, model_type)
    \/ ForecastScenario

SpecRevenue == InitRevenue /\ [][NextRevenue]_vars

\* the calendar days on which the loaded sales table has rows
SalesDays == {DateOf(r["date"]) : r \in Range(sales_data.rows)}

\* forecast_revenue returned a forecast table
RevenueForecasted == ret.op = "forecast_revenue" /\ ret.end.val[1].kind = "DataFrame"

\* C3: forecast_revenue fails with an insufficient-data error whose message
\* states the 7-point minimum whenever the sales table resamples to fewer
\* than 7 daily points, also when the table has 7 or more rows; it produces a
\* forecast only when there are at least 7 resampled daily points.
C3_FewerThanSevenDaysIsInsufficientData ==
    ret.op = "forecast_revenue" =>
        /\ Cardinality(SalesDays) < 7 =>
               /\ IsNone(ret.end.val[1])
               /\ ret.end.val[2].text =
                      "Insufficient data for forecasting (minimum 7 data points required)"
        /\ RevenueForecasted => Cardinality(SalesDays) >= 7

\* the revenue total of one calendar day
RECURSIVE DayTotal(_, _)
DayTotal(rows, day) ==
    IF rows = <<>> THEN 0
    ELSE (IF DateOf(Head(rows)["date"]) = day THEN Head(rows)["revenue"] ELSE 0)
         + DayTotal(Tail(rows), day)

\* the daily totals in date order, the series the model is fitted to
DailyTotals == LET days == SortSet(SalesDays)
               IN  [i \in DOMAIN days |-> DayTotal(sales_data.rows, days[i])]

\* the value of the fitted model at the k-th future time index
FittedValue(k) ==
    LET n == Len(DailyTotals)
        X == [i \in 1..n |-> i - 1]
    IN  Predict(IF ret.arg[2] = "polynomial" THEN PolynomialFit(X, DailyTotals)
                ELSE LinearFit(X, DailyTotals),
                n - 1 + k)

\* C4: every predicted_revenue of a successful forecast_revenue call is >= 0,
\* for both model kinds and every history: each prediction is max(0, value of
\* the fitted model at the future time index).
C4_PredictionsAreClampedAtZero ==
    RevenueForecasted =>
        \A k \in DOMAIN ret.end.val[1].rows :
            LET p == ret.end.val[1].rows[k]["predicted_revenue"]
            IN  /\ p.den > 0
                /\ p.num >= 0
                /\ p = (IF FittedValue(k).num < 0 THEN RatInt(0) ELSE FittedValue(k))

C4_Witness ==
    /\ RevenueForecasted
    /\ ret.arg[2] = "polynomial"
    /\ Len(ret.end.val[1].rows) = 2
    /\ FittedValue(1).num > 0
    /\ FittedValue(2).num < 0
    /\ ret.end.val[1].rows[2]["predicted_revenue"] = RatInt(0)

ScenarioForecasted ==
    /\ RevenueForecasted
    /\ sales_data = Scenario.sales
    /\ ret.arg = <<Scenario.forecast_periods, Scenario.model_type>>

PredictedRevenues ==
    [k \in DOMAIN ret.end.val[1].rows |-> ret.end.val[1].rows[k]["predicted_revenue"]]

\* C5 as stated: on 10 consecutive daily rows with revenue 100, 110, ..., 190
\* the linear forecast with horizon 5 is 240, 250, 260, 270, 280, with R2 = 1.
C5_ScenarioContinuesFrom240 ==
    ScenarioForecasted =>
        /\ PredictedRevenues = <<RatInt(240), RatInt(250), RatInt(260), RatInt(270), RatInt(280)>>
        /\ forecast_data.revenue.metrics.r2 = RatInt(1)

\* C5, amended: on 10 consecutive daily rows with revenue 100, 110, ..., 190
\* the linear forecast with horizon 5 continues the progression with 200,
\* 210, 220, 230, 240 (the values at time indices 10..14), with R2 = 1.
C5_ScenarioContinuesFrom200 ==
    ScenarioForecasted =>
        /\ PredictedRevenues = <<RatInt(200), RatInt(210), RatInt(220), RatInt(230), RatInt(240)>>
        /\ forecast_data.revenue.metrics.r2 = RatInt(1)

C5_Witness ==
    /\ ScenarioForecasted
    /\ Len(ret.end.val[1].rows) = 5
    /\ forecast_data.revenue.metrics.model_type = "linear"
    /\ Len(forecast_data.revenue.historical.rows) = 10

(***************************************************************************)
(* BusinessForecasting: inventory needs                                    *)
(***************************************************************************)
\* a missing product identifier (NaN in an object column)
NoId == ""

\* the rows of the sales table sold under product identifier k
ProductRows(sales, k) ==
    FilterRows(sales, [i \in DOMAIN sales.rows |-> sales.rows[i]["product_id"] = k])

\* the groups of sales_data.groupby('product_id'): missing identifiers are dropped
SoldProducts(sales) == Range(Column(sales, "product_id")) \ {NoId}

\* (last_sale - first_sale).dt.days + 1 of one product; NaN when it has no date
days_active(sales, k) ==
    LET ds == Range(Column(ProductRows(sales, k), "date")) \ {NaT}
        first_sale == CHOOSE d \in ds : \A e \in ds : d <= e
        last_sale == CHOOSE d \in ds : \A e \in ds : e <= d
    IN  IF ds = {} THEN NaN ELSE (last_sale - first_sale) \div TicksPerDay + 1

\* total_quantity / days_active of one product of the sales table
daily_velocity(sales, k) ==
    IF days_active(sales, k) = NaN THEN RatNaN
    ELSE Rat(SumSeq(Column(ProductRows(sales, k), "quantity")), days_active(sales, k))

\* variant: a product without sales keeps the missing velocity of the merge
MergedVelocity_NoFill(sales, k) ==
    IF k \in SoldProducts(sales) THEN daily_velocity(sales, k) ELSE RatNaN

\* the left merge on product_id, then fillna(0): the velocity of an inventory row
MergedVelocity(sales, k) ==
    IF k \in SoldProducts(sales) /\ daily_velocity(sales, k).den # 0
    THEN daily_velocity(sales, k)
    ELSE RatInt(0)

\* a stock-level cell as a float
StockCell(cell) == IF cell = NaN THEN RatNaN ELSE RatInt(cell)

\* a <= b on floats: false when either side is NaN
FloatLe(a, b) == a.den # 0 /\ b.den # 0 /\ RatLe(a, b)

\* a - b on floats: NaN when either side is NaN
FloatSub(a, b) == IF a.den = 0 \/ b.den = 0 THEN RatNaN ELSE RatSub(a, b)

\* a + b on floats: NaN when either side is NaN
FloatAdd(a, b) == IF a.den = 0 \/ b.den = 0 THEN RatNaN ELSE RatAdd(a, b)

\* np.where(reorder_needed, reorder_level + forecasted_demand, 0)
SuggestedOrder(reorder_needed, reorder_level, forecasted_demand) ==
    IF reorder_needed THEN FloatAdd(reorder_level, forecasted_demand) ELSE RatInt(0)

\* variant: predicted_stock < reorder_level
ReorderNeeded_Strict(current_stock, forecasted_demand, reorder_level) ==
    /\ FloatLe(FloatSub(current_stock, forecasted_demand), reorder_level)
    /\ FloatSub(current_stock, forecasted_demand) # reorder_level

\* predicted_stock <= reorder_level
ReorderNeeded(current_stock, forecasted_demand, reorder_level) ==
    FloatLe(FloatSub(current_stock, forecasted_demand), reorder_level)

\* the columns forecast_inventory_needs adds to one inventory row
InventoryForecastRow(row, velocity, forecast_periods) ==
    LET forecasted_demand == RatMul(velocity, RatInt(forecast_periods))
        current_stock == StockCell(row["current_stock"])
        reorder_level == StockCell(row["reorder_level"])
        reorder_needed == ReorderNeeded(current_stock, forecasted_demand, reorder_level)
    IN  row @@ [daily_velocity |-> velocity,
                forecasted_demand |-> forecasted_demand,
                predicted_stock |-> FloatSub(current_stock, forecasted_demand),
                reorder_needed |-> reorder_needed,
                suggested_order |-> SuggestedOrder(reorder_needed, reorder_level,
                                                   forecasted_demand)]

InventoryForecastColumns ==
    {"daily_velocity", "forecasted_demand", "predicted_stock", "reorder_needed",
     "suggested_order"}

\* the merged and extended inventory table
InventoryForecast(sales, inventory, forecast_periods) ==
    DataFrame(inventory.cols \cup InventoryForecastColumns,
              inventory.dtypes
                  @@ [c \in InventoryForecastColumns |->
                         IF c = "reorder_needed" THEN "bool" ELSE "number"],
              [i \in DOMAIN inventory.rows |->
                  InventoryForecastRow(inventory.rows[i],
                                       MergedVelocity(sales, inventory.rows[i]["product_id"]),
                                       forecast_periods)])

\* what the velocity computation reads of the sales table
SalesVelocityNeeds == <<(<<"quantity", "number">>), (<<"date", "datetime">>)>>

\* what the merge and the stock arithmetic read of the inventory table
InventoryForecastNeeds ==
    <<(<<"product_id", "">>), (<<"current_stock", "number">>), (<<"reorder_level", "number">>)>>

\* the first exception the body of forecast_inventory_needs meets, if any
InventoryForecastError(sales, inventory) ==
    IF ReadError(sales, SalesVelocityNeeds).raised THEN ReadError(sales, SalesVelocityNeeds)
    ELSE ReadError(inventory, InventoryForecastNeeds)

\* what forecast_inventory_needs stores in self.forecast_data['inventory']
StoredInventoryForecast(forecast, forecast_periods) ==
    [kind |-> "forecast", forecast |-> forecast, forecast_periods |-> forecast_periods]

\* the outcome of a forecast that fails: nothing is stored, (None, message) returned
ForecastFails(text, args) == [store |-> None, end |-> Returned(<<None, Str(text, args)>>)]

\* forecast_inventory_needs past its two guards: an exception of the body is
\* caught and reported, otherwise the table is stored and returned
InventoryForecastBody(sales, inventory, forecast_periods) ==
    IF InventoryForecastError(sales, inventory).raised
    THEN ForecastFails("Error in inventory forecasting",
                       InventoryForecastError(sales, inventory).val.args)
    ELSE LET inventory_forecast == InventoryForecast(sales, inventory, forecast_periods)
         IN  [store |-> StoredInventoryForecast(inventory_forecast, forecast_periods),
              end |-> Returned(<<inventory_forecast, None>>)]

\* variant: no test of the product_id column, the groupby meets the KeyError
forecast_inventory_needs_NoProductCheck(sales, inventory, forecast_periods) ==
    IF IsNone(sales) \/ IsNone(inventory)
    THEN ForecastFails("Sales and inventory data required for forecasting", <<>>)
    ELSE IF "product_id" \notin sales.cols
    THEN ForecastFails("Error in inventory forecasting", <<"product_id">>)
    ELSE InventoryForecastBody(sales, inventory, forecast_periods)

\* forecast_inventory_needs: what it stores in self.forecast_data['inventory']
\* (None: nothing) and the pair it returns
forecast_inventory_needs(sales, inventory, forecast_periods) ==
    IF IsNone(sales) \/ IsNone(inventory)
    THEN ForecastFails("Sales and inventory data required for forecasting", <<>>)
    ELSE IF "product_id" \notin sales.cols
    THEN ForecastFails("Product ID not found in sales data", <<>>)
    ELSE InventoryForecastBody(sales, inventory, forecast_periods)

ForecastInventoryNeeds(forecast_periods) ==
    LET out == forecast_inventory_needs(sales_data, inventory_data, forecast_periods)
    IN  /\ forecast_data' = IF IsNone(out.store) THEN forecast_data
                            ELSE [forecast_data EXCEPT !.inventory = out.store]
        /\ ret' = Call("forecast_inventory_needs", forecast_periods, out.end)
        /\ UNCHANGED <<sales_data, expenses_data, inventory_data>>

(***************************************************************************)
(* Stock queries and inventory forecasts of bounded inventory tables      *)
(* (specification SpecInventory)                                           *)
(***************************************************************************)
MaxInventoryRows == 2

MaxInventoryHorizon == 2

\* (current_stock, reorder_level) of a row as validation leaves them: numbers
\* of either sign or NaN; 8 against 10 and 25 against 20 are the rows of the
\* spec's scenario, 10 against 10 is the boundary
StockCases ==
    { <<8, 10>>, <<25, 20>>, <<10, 10>>, <<NaN, 10>>, <<8, NaN>>, <<0 - 2, 0 - 1>> }

\* the product of the i-th inventory row; rows past the second have no identifier
InventoryProduct(i) == IF i = 1 THEN "P1" ELSE IF i = 2 THEN "P2" ELSE NoId

\* a validated inventory table with the required columns only
InventoryTable(rows) ==
    DataFrame({"product_id", "product_name", "current_stock", "reorder_level"},
              [product_id |-> "object", product_name |-> "object",
               current_stock |-> "number", reorder_level |-> "number"],
              rows)

InventoryTables ==
    UNION {{InventoryTable([i \in 1..n |->
                               [product_id |-> InventoryProduct(i),
                                product_name |-> "item",
                                current_stock |-> levels[i][1],
                                reorder_level |-> levels[i][2]]]) :
               levels \in [1..n -> StockCases]} :
           n \in 0..MaxInventoryRows}

\* a validated sales table with product and quantity columns
ProductSalesTable(quantity_dtype, rows) ==
    DataFrame({"date", "revenue", "product_id", "quantity"},
              [date |-> "datetime", revenue |-> "number",
               product_id |-> "object", quantity |-> quantity_dtype],
              rows)

ProductSale(day, tod, product_id, quantity) ==
    [date |-> IF day = NaT THEN NaT ELSE Midnight(day) + tod, revenue |-> 5,
     product_id |-> product_id, quantity |-> quantity]

\* the sales histories of the inventory forecasts: without a product column,
\* without a quantity column, with quantities that are text, and with sales of
\* P1 on one or several days, returns, undated and unidentified rows
ProductSalesTables ==
    { SalesTable(<<SalesRow(0, 0, 5)>>),
      DataFrame({"date", "revenue", "product_id"},
                [date |-> "datetime", revenue |-> "number", product_id |-> "object"],
                << [date |-> 0, revenue |-> 5, product_id |-> "P1"] >>),
      ProductSalesTable("object", <<ProductSale(0, 0, "P1", BadText)>>),
      ProductSalesTable("number", <<>>),
      ProductSalesTable("number", <<ProductSale(0, 0, "P1", 3), ProductSale(2, 1, "P1", 1),
                                    ProductSale(1, 0, "P3", 2)>>),
      ProductSalesTable("number", <<ProductSale(4, 0, "P1", 30), ProductSale(4, 1, NoId, 7)>>),
      ProductSalesTable("number", <<ProductSale(0, 0, "P1", 0 - 3), ProductSale(0, 0, "P1", NaN)>>),
      ProductSalesTable("number", <<ProductSale(NaT, 0, "P2", 4), ProductSale(1, 0, "P3", 1)>>) }

InventoryHorizons == (0 - 1)..MaxInventoryHorizon

InitInventory ==
    /\ sales_data \in ProductSalesTables \cup {None}
    /\ expenses_data = None
    /\ inventory_data \in InventoryTables \cup {None}
    /\ forecast_data = NoForecasts
    /\ ret = Call("__init__", "", Returned(None))

NextInventory ==
    \/ GetLowStockAlerts
    \/ CalculateKpis
    \/ \E forecast_periods \in InventoryHorizons : ForecastInventoryNeeds(forecast_periods)

SpecInventory == InitInventory /\ [][NextInventory]_vars

\* the rows of an inventory table whose stock is at or below the reorder level,
\* in table order, cut down to the four alert columns
RECURSIVE AlertRows(_)
AlertRows(rows) ==
    IF rows = <<>> THEN <<>>
    ELSE (IF /\ Head(rows)["current_stock"] # NaN
             /\ Head(rows)["reorder_level"] # NaN
             /\ Head(rows)["current_stock"] <= Head(rows)["reorder_level"]
          THEN << [product_id |-> Head(rows)["product_id"],
                   product_name |-> Head(rows)["product_name"],
                   current_stock |-> Head(rows)["current_stock"],
                   reorder_level |-> Head(rows)["reorder_level"]] >>
          ELSE <<>>)
         \o AlertRows(Tail(rows))

\* C11: get_low_stock_alerts returns exactly the inventory rows with
\* current_stock <= reorder_level (stock 8 against reorder level 10 is
\* included, stock 25 against 20 is not), restricted to the columns
\* product_id, product_name, current_stock, reorder_level; and the KPI
\* low_stock_items equals the number of rows it returns.
C11_LowStockAlertsAreTheRowsAtOrBelowReorder ==
    /\ (ret.op = "get_low_stock_alerts" /\ ~IsNone(inventory_data)) =>
           /\ ~ret.end.raised
           /\ ret.end.val.cols = {"product_id", "product_name", "current_stock", "reorder_level"}
           /\ ret.end.val.rows = AlertRows(inventory_data.rows)
    /\ (ret.op = "calculate_kpis" /\ ~IsNone(inventory_data) /\ ~ret.end.raised) =>
           ret.end.val.low_stock_items = Len(get_low_stock_alerts(inventory_data).val.rows)

C11_Witness ==
    /\ ret.op = "get_low_stock_alerts"
    /\ ~IsNone(inventory_data)
    /\ Len(inventory_data.rows) = 2
    /\ inventory_data.rows[1]["current_stock"] = 25 /\ inventory_data.rows[1]["reorder_level"] = 20
    /\ inventory_data.rows[2]["current_stock"] = 10 /\ inventory_data.rows[2]["reorder_level"] = 10
    /\ Len(ret.end.val.rows) = 1
    /\ ret.end.val.rows[1]["product_id"] = "P2"

\* the first component of the pair the last forecast call returned, when it is
\* a forecast table
ForecastReturned(op) ==
    ret.op = op /\ ~ret.end.raised /\ ~IsNone(ret.end.val[1])

\* the product of an inventory row appears in no row of the sales table
Unsold(product_id) ==
    \A i \in DOMAIN sales_data.rows : sales_data.rows[i]["product_id"] # product_id

\* the static low-stock predicate of an inventory row
AtOrBelowReorder(row) ==
    /\ row["current_stock"] # NaN
    /\ row["reorder_level"] # NaN
    /\ row["current_stock"] <= row["reorder_level"]

\* C12: in forecast_inventory_needs every inventory product whose product_id
\* has no row in the sales table gets daily_velocity = 0 and
\* forecasted_demand = 0, and its reorder_needed is true if and only if
\* current_stock <= reorder_level, for every horizon.
C12_UnsoldProductsHaveZeroDemand ==
    ForecastReturned("forecast_inventory_needs") =>
        /\ Len(ret.end.val[1].rows) = Len(inventory_data.rows)
        /\ \A i \in DOMAIN inventory_data.rows :
               Unsold(inventory_data.rows[i]["product_id"]) =>
                   /\ ret.end.val[1].rows[i]["daily_velocity"] = RatInt(0)
                   /\ ret.end.val[1].rows[i]["forecasted_demand"] = RatInt(0)
                   /\ ret.end.val[1].rows[i]["reorder_needed"]
                          = AtOrBelowReorder(inventory_data.rows[i])

C12_Witness ==
    /\ ForecastReturned("forecast_inventory_needs")
    /\ ret.arg = MaxInventoryHorizon
    /\ Len(inventory_data.rows) = 2
    /\ ~Unsold("P1") /\ Unsold("P2")
    /\ ret.end.val[1].rows[1]["daily_velocity"] = Rat(4, 3)
    /\ inventory_data.rows[2]["current_stock"] = 10
    /\ ret.end.val[1].rows[2]["daily_velocity"] = RatInt(0)
    /\ ret.end.val[1].rows[2]["reorder_needed"]

\* C13: in every row of every result returned by forecast_inventory_needs,
\* suggested_order is >= 0, for all validated inventory and sales tables and
\* all horizons.
C13_SuggestedOrderIsNeverNegative ==
    ForecastReturned("forecast_inventory_needs") =>
        \A i \in DOMAIN ret.end.val[1].rows :
            FloatLe(RatInt(0), ret.end.val[1].rows[i]["suggested_order"])

(***************************************************************************)
(* A session with inventory forecasts (specification SpecSession)          *)
(***************************************************************************)
ForecastInventory ==
    \E forecast_periods \in InventoryHorizons : ForecastInventoryNeeds(forecast_periods)

NextSession == Next \/ ForecastInventory

SpecSession == Init /\ [][NextSession]_vars

\* the loaded sales table has no product_id column
SalesLackProductId == ~IsNone(sales_data) /\ "product_id" \notin sales_data.cols

\* C14: forecast_inventory_needs called with a sales table that has no
\* product_id column does not raise: it returns (None, message), the message
\* being the missing product id one whenever an inventory table is given, and
\* it records no inventory forecast (the recorded forecasts stay as they were).
C14_NoProductIdIsReturnedAsAnError ==
    [][(SalesLackProductId /\ ret'.op = "forecast_inventory_needs") =>
           /\ ~ret'.end.raised
           /\ IsNone(ret'.end.val[1])
           /\ ret'.end.val[2].kind = "str"
           /\ ~IsNone(inventory_data) =>
                  ret'.end.val[2] = Str("Product ID not found in sales data", <<>>)
           /\ forecast_data' = forecast_data]_vars

C14_Witness ==
    /\ SalesLackProductId
    /\ ~IsNone(inventory_data)
    /\ ret.op = "forecast_inventory_needs"
    /\ ret.end.val = <<None, Str("Product ID not found in sales data", <<>>)>>
    /\ ~IsNone(forecast_data.inventory)

(***************************************************************************)
(* Validation of raw tables (specification SpecValidate)                   *)
(***************************************************************************)
MaxValidateRows == 2

RequiredColumns(data_type) ==
    CASE data_type = "sales" -> {"date", "revenue"}
      [] data_type = "expenses" -> {"date", "amount", "category"}
      [] data_type = "inventory" -> {"product_id", "product_name", "current_stock",
                                     "reorder_level"}

RecordTypes == {"sales", "expenses", "inventory"}

NumericColumns == {"revenue", "amount", "current_stock", "reorder_level"}

\* the column sets of the raw tables: any part of the required columns of a
\* record type, with or without an optional column
RawColumnSets ==
    UNION {{cs \cup extra : cs \in SUBSET RequiredColumns(data_type),
                            extra \in {{}, {"supplier"}}} :
           data_type \in RecordTypes}

\* a table as read from a file: the first row carries the given date and
\* numeric cells, the later rows are well formed
RawTable(cols, n, date, number) ==
    DataFrame(cols,
              [c \in cols |-> IF c \in NumericColumns /\ number # BadText
                              THEN "number" ELSE "object"],
              [i \in 1..n |->
                  [c \in cols |->
                      IF c = "date" THEN (IF i = 1 THEN date ELSE DateText(i, 0))
                      ELSE IF c \in NumericColumns THEN (IF i = 1 THEN number ELSE i)
                      ELSE "text"]])

RawTables ==
    {RawTable(cols, n, date, number) :
        cols \in RawColumnSets, n \in 0..MaxValidateRows,
        date \in {DateText(0, 1), BadText}, number \in {5, BadText}}

validate_data(df, data_type) ==
    CASE data_type = "sales" -> validate_sales_data(df)
      [] data_type = "expenses" -> validate_expenses_data(df)
      [] data_type = "inventory" -> validate_inventory_data(df)

\* a call of one of the three validators on a table
ValidateData(df, data_type) ==
    /\ ret' = Call("validate_data", <<df, data_type>>, validate_data(df, data_type))
    /\ UNCHANGED <<sales_data, expenses_data, inventory_data, forecast_data>>

NextValidate == \E df \in RawTables, data_type \in RecordTypes : ValidateData(df, data_type)

SpecValidate == Init /\ [][NextValidate]_vars

\* the required columns of a record type that a table lacks
LackedColumns(df, data_type) == RequiredColumns(data_type) \ df.cols

\* C15: for each of the three record types, validation of a table lacking any
\* required column fails with an error whose message lists exactly the missing
\* required column names, each once; the check precedes date and numeric
\* coercion, so a table with unparseable dates still reports the missing columns.
C15_MissingColumnsAreListedExactly ==
    (ret.op = "validate_data" /\ LackedColumns(ret.arg[1], ret.arg[2]) # {}) =>
        /\ ret.end.raised
        /\ ret.end.exc = "ValueError"
        /\ ret.end.val.text = "Missing required columns"
        /\ Range(ret.end.val.args) = LackedColumns(ret.arg[1], ret.arg[2])
        /\ Len(ret.end.val.args) = Cardinality(LackedColumns(ret.arg[1], ret.arg[2]))

C15_Witness ==
    /\ ret.op = "validate_data"
    /\ ret.arg[2] = "expenses"
    /\ ret.arg[1].cols = {"date", "supplier"}
    /\ Len(ret.arg[1].rows) = 2
    /\ ret.arg[1].rows[1]["date"] = BadText
    /\ ret.end.raised
    /\ ret.end.val.args = <<"amount", "category">>

(***************************************************************************)
(* Uploads of sales and expenses files (specification SpecUpload)          *)
(***************************************************************************)
MaxUploadRows == 2

TargetColumn(data_type) == IF data_type = "sales" THEN "revenue" ELSE "amount"

\* the cells of a revenue or amount column as read: a number, an empty cell,
\* a text that is no number
TargetCells == {5, NaN, BadText}

\* a file of the given record type with all its required columns; row i is
\* dated day i, the first date is as given
TargetTable(data_type, date, cells) ==
    DataFrame(RequiredColumns(data_type),
              [c \in RequiredColumns(data_type) |->
                  IF c = TargetColumn(data_type) /\ BadText \notin Range(cells)
                  THEN "number" ELSE "object"],
              [i \in DOMAIN cells |->
                  [c \in RequiredColumns(data_type) |->
                      IF c = "date" THEN (IF i = 1 THEN date ELSE DateText(i, 0))
                      ELSE IF c = TargetColumn(data_type) THEN cells[i]
                      ELSE "rent"]])

\* the files uploaded: every column of target cells under parseable dates, and
\* one file whose first date is no date
TargetTables(data_type) ==
    UNION {{TargetTable(data_type, DateText(1, 0), cells) : cells \in [1..n -> TargetCells]} :
           n \in 0..MaxUploadRows}
    \cup {TargetTable(data_type, BadText, <<5>>)}

\* process_uploaded_file on a sales file as sales, on an expenses file as expenses
UploadTarget ==
    \E data_type \in {"sales", "expenses"} :
        \E df \in TargetTables(data_type) :
            ProcessUploadedFile(UploadedFile("csv", TRUE, df), data_type)

NextUpload == UploadTarget

SpecUpload == Init /\ [][NextUpload]_vars

\* the rows of a raw table whose target cell holds a number, in table order,
\* with the date parsed
RECURSIVE KeptRows(_, _)
KeptRows(rows, target) ==
    IF rows = <<>> THEN <<>>
    ELSE (IF Head(rows)[target] \in {NaN, BadText} THEN <<>>
          ELSE << [Head(rows) EXCEPT !["date"] = ParseDate(Head(rows)["date"])] >>)
         \o KeptRows(Tail(rows), target)

\* the table stored for a record type
StoredTable(data_type, s, e) == IF data_type = "sales" THEN s ELSE e

\* no row of a loaded table lacks its target value
TargetPresent(df, target) ==
    IsNone(df) \/ \A i \in DOMAIN df.rows : df.rows[i][target] # NaN

\* C16: a sales (expenses) upload whose revenue (amount) column contains values
\* that cannot be coerced to numbers does not fail: the accepted and stored
\* table consists of exactly the input rows whose revenue (amount) is present
\* after coercion, in their original order; so no stored sales or expenses
\* table ever contains a row with a missing target value.
C16_UncoercibleTargetsAreDropped ==
    /\ (/\ ret.op = "process_uploaded_file"
        /\ ret.arg[2] \in {"sales", "expenses"}
        /\ RequiredColumns(ret.arg[2]) \subseteq ret.arg[1].df.cols
        /\ \A i \in DOMAIN ret.arg[1].df.rows : ret.arg[1].df.rows[i]["date"] # BadText) =>
           /\ ~ret.end.raised
           /\ ret.end.val = <<StoredTable(ret.arg[2], sales_data, expenses_data), None>>
           /\ ret.end.val[1].rows = KeptRows(ret.arg[1].df.rows, TargetColumn(ret.arg[2]))
    /\ TargetPresent(sales_data, "revenue")
    /\ TargetPresent(expenses_data, "amount")

C16_Witness ==
    /\ ret.op = "process_uploaded_file"
    /\ ret.arg[2] = "expenses"
    /\ Len(ret.arg[1].df.rows) = 2
    /\ ret.arg[1].df.rows[1]["amount"] = BadText
    /\ ~IsNone(sales_data) /\ Len(sales_data.rows) = 2
    /\ ret.end.val = <<expenses_data, None>>
    /\ Len(expenses_data.rows) = 1
    /\ expenses_data.rows[1]["date"] = ParseDate(DateText(2, 0))
    /\ expenses_data.rows[1]["amount"] = 5

(***************************************************************************)
(* Profit of bounded sales and expenses tables (specification SpecProfit)  *)
(***************************************************************************)
MaxProfitRows == 2

\* revenues and amounts as validation leaves them: numbers of either sign
ProfitRevenues == {0 - 2, 0, 3}

ProfitAmounts == {0, 1, 5}

\* a validated expenses table with the required columns only
ExpensesTable(rows) ==
    DataFrame({"date", "amount", "category"},
              [date |-> "datetime", amount |-> "number", category |-> "object"], rows)

ProfitSalesTables ==
    UNION {{SalesTable([i \in 1..n |-> SalesRow(i, 0, revenue[i])]) :
               revenue \in [1..n -> ProfitRevenues]} :
           n \in 0..MaxProfitRows}

ProfitExpensesTables ==
    UNION {{ExpensesTable([i \in 1..n |->
                              [date |-> Midnight(i), amount |-> amount[i],
                               category |-> "rent"]]) :
               amount \in [1..n -> ProfitAmounts]} :
           n \in 0..MaxProfitRows}

InitProfit ==
    /\ sales_data \in ProfitSalesTables \cup {None}
    /\ expenses_data \in ProfitExpensesTables \cup {None}
    /\ inventory_data = None
    /\ forecast_data = NoForecasts
    /\ ret = Call("__init__", "", Returned(None))

NextProfit == CalculateKpis

SpecProfit == InitProfit /\ [][NextProfit]_vars

\* the revenue cells of the first n rows added up, last row first
RECURSIVE RevenueTotal(_, _)
RevenueTotal(rows, n) ==
    IF n = 0 THEN 0 ELSE rows[n]["revenue"] + RevenueTotal(rows, n - 1)

\* C17: for every loaded sales table total_revenue equals the sum of its
\* revenue column, and it is the same for every permutation of the table's rows.
C17_TotalRevenueIsTheColumnSum ==
    (ret.op = "calculate_kpis" /\ ~IsNone(sales_data)) =>
        /\ ~ret.end.raised
        /\ ret.end.val.total_revenue = RevenueTotal(sales_data.rows, Len(sales_data.rows))
        /\ \A p \in Permutations(DOMAIN sales_data.rows) :
               calculate_kpis(Permuted(sales_data, p), expenses_data,
                              inventory_data).val.total_revenue
                   = ret.end.val.total_revenue

C17_Witness ==
    /\ ret.op = "calculate_kpis"
    /\ ~IsNone(sales_data)
    /\ Len(sales_data.rows) = MaxProfitRows
    /\ sales_data.rows[1]["revenue"] = 3
    /\ sales_data.rows[MaxProfitRows]["revenue"] = 0 - 2
    /\ ret.end.val.total_revenue = 3 * (MaxProfitRows - 1) - 2

\* the cells of a column of the loaded rows added up
RECURSIVE CellTotal(_, _)
CellTotal(rows, col) ==
    IF rows = <<>> THEN 0 ELSE Head(rows)[col] + CellTotal(Tail(rows), col)

RevenueLoaded == CellTotal(sales_data.rows, "revenue")

ExpensesLoaded == CellTotal(expenses_data.rows, "amount")

\* calculate_kpis has been called with both tables loaded
ProfitComputed == ret.op = "calculate_kpis" /\ ~IsNone(sales_data) /\ ~IsNone(expenses_data)

\* C18: with both sales and expenses loaded, total_profit =
\* total_revenue - total_expenses and profit_margin = total_profit /
\* total_revenue * 100, except that profit_margin is 0 when total_revenue is 0;
\* no division by zero occurs.
C18_MarginIsZeroOnlyAtZeroRevenue ==
    ProfitComputed =>
        /\ ~ret.end.raised
        /\ ret.end.val.total_profit = RevenueLoaded - ExpensesLoaded
        /\ ret.end.val.profit_margin.den # 0
        /\ ret.end.val.profit_margin =
               IF RevenueLoaded = 0 THEN RatInt(0)
               ELSE Rat((RevenueLoaded - ExpensesLoaded) * 100, RevenueLoaded)

\* the loaded history has at least 7 daily totals, all of them the same value
\* c >= 0
FlatHistory ==
    /\ Len(DailyTotals) >= 7
    /\ DailyTotals[1] >= 0
    /\ \A i \in DOMAIN DailyTotals : DailyTotals[i] = DailyTotals[1]

\* C19: with the linear model, a history whose 7 or more daily totals all
\* equal the same value c >= 0 yields a zero-slope fit: every prediction of
\* forecast_revenue equals c, for every horizon.
C19_FlatHistoryIsForecastFlat ==
    (ret.op = "forecast_revenue" /\ ret.arg[2] = "linear" /\ FlatHistory) =>
        /\ ret.arg[1] >= 1 =>
               /\ RevenueForecasted
               /\ Len(ret.end.val[1].rows) = ret.arg[1]
               /\ forecast_data.revenue.forecast = ret.end.val[1]
        /\ RevenueForecasted =>
               \A k \in DOMAIN ret.end.val[1].rows :
                   ret.end.val[1].rows[k]["predicted_revenue"] = RatInt(DailyTotals[1])

C19_Witness ==
    /\ RevenueForecasted
    /\ ret.arg = <<MaxHorizon, "linear">>
    /\ FlatHistory
    /\ DailyTotals[1] = 3
    /\ PredictedRevenues = [k \in 1..MaxHorizon |-> RatInt(3)]

(***************************************************************************)
(* BusinessForecasting: expenses                                           *)
(***************************************************************************)
ExpenseMinDataPoints == 7

MaxWindow == 7

\* the fixed relative half-width of the expense confidence band, in percent
ExpenseBandPercent == 20

\* ts_data['amount'].rolling(window).mean().iloc[-1]: the mean of the last
\* window values
MovingAverage(y, window) ==
    Rat(SumOf([i \in 1..window |-> y[Len(y) - window + i]]), window)

\* variant: the prediction is used as computed, also below zero
ExpensePrediction_Unclamped(base_prediction, variation) ==
    RatMul(base_prediction, RatAdd(RatInt(1), variation))

\* max(base_prediction * (1 + variation), 0)
ExpensePrediction(base_prediction, variation) ==
    RatMax(RatMul(base_prediction, RatAdd(RatInt(1), variation)), RatInt(0))

\* forecast_expenses past its two data checks, for the values np.random.normal
\* returned in the loop
ExpenseForecast(ts_data, forecast_periods, variations) ==
    LET y == Column(ts_data, "amount")
        window_size == Min(MaxWindow, Len(ts_data.rows) \div 2)
        moving_avg == MovingAverage(y, window_size)
        last_date == ts_data.rows[Len(ts_data.rows)]["date"]
        predictions == [i \in 1..forecast_periods |->
                           ExpensePrediction(moving_avg, variations[i])]
        forecast_df ==
            DataFrame({"date", "predicted_expenses", "confidence_lower", "confidence_upper"},
                      [date |-> "date", predicted_expenses |-> "number",
                       confidence_lower |-> "number", confidence_upper |-> "number"],
                      [i \in 1..forecast_periods |->
                          [date |-> FutureDate(last_date, i),
                           predicted_expenses |-> predictions[i],
                           confidence_lower |->
                               RatMul(predictions[i], Rat(100 - ExpenseBandPercent, 100)),
                           confidence_upper |->
                               RatMul(predictions[i], Rat(100 + ExpenseBandPercent, 100))]])
    IN  [kind |-> "forecast",
         historical |-> ts_data,
         forecast |-> forecast_df,
         metrics |-> [method |-> "moving_average", window_size |-> window_size]]

\* forecast_expenses: the table it leaves in its argument, what it stores in
\* self.forecast_data['expenses'] (None: nothing), and the pair it returns
forecast_expenses(expenses, forecast_periods, variations) ==
    IF IsNone(expenses) \/ Len(expenses.rows) < ExpenseMinDataPoints
    THEN [data |-> expenses, store |-> None,
          end |-> Returned(<<None, Str("Insufficient expense data for forecasting", <<>>)>>)]
    ELSE LET prep == prepare_time_series_data(expenses, "date", "amount", "daily")
             ts_data == prep.end.val
         IN  IF IsNone(ts_data) \/ Len(ts_data.rows) < ExpenseMinDataPoints
             THEN [data |-> prep.data, store |-> None,
                   end |-> Returned(<<None, Str("Unable to prepare expense time series data",
                                                <<>>)>>)]
             ELSE LET stored == ExpenseForecast(ts_data, forecast_periods, variations)
                  IN  [data |-> prep.data, store |-> stored,
                       end |-> Returned(<<stored.forecast, None>>)]

ForecastExpenses(forecast_periods, variations) ==
    LET out == forecast_expenses(expenses_data, forecast_periods, variations)
    IN  /\ expenses_data' = out.data
        /\ forecast_data' = IF IsNone(out.store) THEN forecast_data
                            ELSE [forecast_data EXCEPT !.expenses = out.store]
        /\ ret' = Call("forecast_expenses", <<forecast_periods, variations>>, out.end)
        /\ UNCHANGED <<sales_data, inventory_data>>

(***************************************************************************)
(* Revenue and expense forecasts (specification SpecForecasts)             *)
(***************************************************************************)
MaxExpenseRows == 7

\* values np.random.normal(0, 0.1) can return: none, a tenth up, and one far
\* enough below -1 to turn the prediction negative
Variations == {RatInt(0), Rat(1, 10), Rat(0 - 3, 2)}

ExpenseShapes == {"rising", "refunds"}

\* the amount of row i
ShapeAmount(shape, i) == IF shape = "rising" THEN i ELSE 0 - i

ExpenseHistories ==
    {ExpensesTable([i \in 1..n |->
                       [date |-> Midnight(LayoutDay(layout, n, i)),
                        amount |-> ShapeAmount(shape, i),
                        category |-> "rent"]]) :
        shape \in ExpenseShapes, layout \in {"consecutive", "sameday"},
        n \in (ExpenseMinDataPoints - 1)..MaxExpenseRows}

\* the sales histories of the revenue forecasts: rising, and falling to below
\* zero, on consecutive days or on every second day
ForecastSales ==
    {SalesTable([i \in 1..MinDataPoints |->
                    SalesRow(LayoutDay(layout, MinDataPoints, i), 0,
                             ShapeRevenue(shape, MinDataPoints, i))]) :
        shape \in {"rising", "falling"}, layout \in {"consecutive", "gapped"}}

InitForecasts ==
    /\ \/ sales_data \in ForecastSales /\ expenses_data = None
       \/ sales_data = None /\ expenses_data \in ExpenseHistories
    /\ inventory_data = None
    /\ forecast_data = NoForecasts
    /\ ret = Call("__init__", "", Returned(None))

NextForecasts ==
    \/ \E forecast_periods \in Horizons, model_type \in ModelTypes :
           ForecastRevenue(forecast_periods, model_type)
    \/ \E forecast_periods \in Horizons, first \in Variations, later \in Variations :
           ForecastExpenses(forecast_periods,
                            [i \in 1..forecast_periods |-> IF i = 1 THEN first ELSE later])

SpecForecasts == InitForecasts /\ [][NextForecasts]_vars

\* every row of a stored forecast has its band at the given fractions of the
\* prediction, and the prediction inside the band
BandsAt(stored, prediction, lower, upper) ==
    ~IsNone(stored) =>
        \A k \in DOMAIN stored.forecast.rows :
            LET row == stored.forecast.rows[k]
            IN  /\ row["confidence_lower"] = RatMul(lower, row[prediction])
                /\ row["confidence_upper"] = RatMul(upper, row[prediction])
                /\ FloatLe(row["confidence_lower"], row[prediction])
                /\ FloatLe(row[prediction], row["confidence_upper"])

\* C20: in every row of a revenue forecast confidence_lower = 0.85 * prediction
\* and confidence_upper = 1.15 * prediction, and in every row of an expense
\* forecast confidence_lower = 0.8 * prediction and confidence_upper = 1.2 *
\* prediction; consequently confidence_lower <= prediction <= confidence_upper
\* in every forecast row.
C20_BandsAreFixedFractionsOfThePrediction ==
    /\ BandsAt(forecast_data.revenue, "predicted_revenue", Rat(85, 100), Rat(115, 100))
    /\ BandsAt(forecast_data.expenses, "predicted_expenses", Rat(8, 10), Rat(12, 10))
    /\ (ret.op \in {"forecast_revenue", "forecast_expenses"} /\ ~IsNone(ret.end.val[1])) =>
           ret.end.val[1] = (IF ret.op = "forecast_revenue" THEN forecast_data.revenue
                             ELSE forecast_data.expenses).forecast

C20_Witness ==
    /\ ret.op = "forecast_expenses"
    /\ ret.arg[1] = MaxHorizon
    /\ ~IsNone(forecast_data.expenses)
    /\ forecast_data.expenses.forecast.rows[1]["predicted_expenses"] = Rat(33, 5)
    /\ forecast_data.expenses.forecast.rows[1]["confidence_lower"] = Rat(132, 25)
    /\ forecast_data.expenses.forecast.rows[2]["predicted_expenses"] = RatInt(0)
    /\ forecast_data.expenses.forecast.rows[2]["confidence_upper"] = RatInt(0)

\* the last forecast call returned a forecast table
Forecasted == ret.op \in {"forecast_revenue", "forecast_expenses"} /\ ~IsNone(ret.end.val[1])

\* the horizon the last forecast call was given
HorizonGiven == ret.arg[1]

\* the calendar days of the history the last forecast call was given
HistoryDays ==
    {DateOf(r["date"]) :
        r \in Range((IF ret.op = "forecast_revenue" THEN sales_data ELSE expenses_data).rows)}

LastObservedDay == CHOOSE d \in HistoryDays : \A e \in HistoryDays : e <= d

\* C21: a successful forecast_revenue or forecast_expenses call with horizon h
\* returns exactly h rows whose dates are the h consecutive calendar days
\* starting the day after the last observed date (strictly increasing, no
\* gaps, none overlapping the history); the k-th revenue row is the model's
\* value at time index last_index + k.
C21_ForecastDatesFollowTheHistory ==
    Forecasted =>
        /\ Len(ret.end.val[1].rows) = HorizonGiven
        /\ \A k \in DOMAIN ret.end.val[1].rows :
               /\ ret.end.val[1].rows[k]["date"] = LastObservedDay + k
               /\ ret.end.val[1].rows[k]["date"] \notin HistoryDays
               /\ ret.op = "forecast_revenue" =>
                      ret.end.val[1].rows[k]["predicted_revenue"]
                          = RatMax(FittedValue(k), RatInt(0))

C21_Witness ==
    /\ Forecasted
    /\ ret.op = "forecast_revenue"
    /\ HorizonGiven = MaxHorizon
    /\ Cardinality(HistoryDays) = MinDataPoints
    /\ LastObservedDay = 2 * (MinDataPoints - 1)
    /\ ret.end.val[1].rows[MaxHorizon]["date"] = LastObservedDay + MaxHorizon
    /\ ret.end.val[1].rows[MaxHorizon]["predicted_revenue"].num > 0

\* the three stored tables, by record type
LoadedTables ==
    [sales |-> sales_data, expenses |-> expenses_data, inventory |-> inventory_data]

\* C22: process_uploaded_file changes at most the stored table of the declared
\* type: a successful upload replaces that type's table with the newly
\* validated one and leaves the other two unchanged; a failed upload leaves
\* all three stored tables exactly as they were.
C22_UploadChangesOnlyTheDeclaredTable ==
    [][ ret'.op = "process_uploaded_file" =>
            IF IsNone(ret'.end.val[1])
            THEN LoadedTables' = LoadedTables
            ELSE /\ ret'.arg[2] \in RecordTypes
                 /\ LoadedTables'[ret'.arg[2]]
                        = validate_data(ret'.arg[1].df, ret'.arg[2]).val
                 /\ LoadedTables'[ret'.arg[2]] = ret'.end.val[1]
                 /\ \A other \in RecordTypes \ {ret'.arg[2]} :
                        LoadedTables'[other] = LoadedTables[other] ]_vars

\* a failed sales upload has left the earlier sales table in effect, next to
\* an expenses table loaded before
C22_Witness ==
    /\ ret.op = "process_uploaded_file"
    /\ ret.arg = <<UploadedFile("csv", TRUE, SalesNoRevenue), "sales">>
    /\ IsNone(ret.end.val[1])
    /\ sales_data = validate_sales_data(SalesXlsx).val
    /\ expenses_data = validate_expenses_data(ExpensesCsv).val
    /\ IsNone(inventory_data)

(***************************************************************************)
(* The forecast summary (specification SpecSummary)                        *)
(***************************************************************************)
ForecastKinds == {"revenue", "expenses", "inventory"}

\* the keys of self.forecast_data
StoredKinds(stored) == {kind \in ForecastKinds : ~IsNone(stored[kind])}

\* the summary entry of a revenue or expense forecast
SeriesSummary(forecast_info, predicted_col) ==
    LET predicted == Column(forecast_info.forecast, predicted_col)
    IN  [next_30_days_total |-> RatSum(predicted),
         daily_average |-> RatDiv(RatSum(predicted), RatInt(Len(predicted))),
         trend |-> IF RatLt(predicted[1], predicted[Len(predicted)])
                   THEN "increasing" ELSE "decreasing",
         model_accuracy |-> forecast_info.metrics]

\* the summary entry of an inventory forecast; sum() skips missing values
InventorySummary(forecast_info) ==
    LET rows == forecast_info.forecast.rows
        orders == Column(FilterRows(forecast_info.forecast,
                                    [i \in DOMAIN rows |->
                                        rows[i]["suggested_order"].den # 0]),
                         "suggested_order")
    IN  [products_needing_reorder |->
             Cardinality({i \in DOMAIN rows : rows[i]["reorder_needed"]}),
         total_suggested_orders |-> RatSum(orders),
         forecast_period_days |-> forecast_info.forecast_periods]

\* get_forecast_summary: one entry per stored forecast; iloc[-1] and iloc[0]
\* raise IndexError on a revenue or expense forecast without rows
get_forecast_summary(stored) ==
    IF \E kind \in StoredKinds(stored) \ {"inventory"} : stored[kind].forecast.rows = <<>>
    THEN Raised("IndexError", "single positional indexer is out-of-bounds", <<>>)
    ELSE Returned([kind \in StoredKinds(stored) |->
                      CASE kind = "revenue" ->
                               SeriesSummary(stored[kind], "predicted_revenue")
                        [] kind = "expenses" ->
                               SeriesSummary(stored[kind], "predicted_expenses")
                        [] kind = "inventory" -> InventorySummary(stored[kind])])

GetForecastSummary ==
    /\ ret' = Call("get_forecast_summary", "", get_forecast_summary(forecast_data))
    /\ UNCHANGED <<sales_data, expenses_data, inventory_data, forecast_data>>

\* seven days of sales of P1
SummarySales ==
    ProductSalesTable("number",
                      [i \in 1..MinDataPoints |-> ProductSale(i - 1, 0, "P1", i)])

\* six or seven days of expenses
SummaryExpenses ==
    {ExpensesTable([i \in 1..n |->
                       [date |-> Midnight(i - 1), amount |-> i, category |-> "rent"]]) :
        n \in {ExpenseMinDataPoints - 1, ExpenseMinDataPoints}}

SummaryInventory ==
    InventoryTable(<< [product_id |-> "P1", product_name |-> "item",
                       current_stock |-> 8, reorder_level |-> 10],
                      [product_id |-> "P2", product_name |-> "item",
                       current_stock |-> 25, reorder_level |-> 20] >>)

InitSummary ==
    /\ sales_data = SummarySales
    /\ expenses_data \in SummaryExpenses
    /\ inventory_data = SummaryInventory
    /\ forecast_data = NoForecasts
    /\ ret = Call("__init__", "", Returned(None))

NextSummary ==
    \/ \E forecast_periods \in Horizons : ForecastRevenue(forecast_periods, "linear")
    \/ \E forecast_periods \in Horizons, variation \in Variations :
           ForecastExpenses(forecast_periods, [i \in 1..forecast_periods |-> variation])
    \/ \E forecast_periods \in Horizons : ForecastInventoryNeeds(forecast_periods)
    \/ GetForecastSummary

SpecSummary == InitSummary /\ [][NextSummary]_vars

\* the kind of forecast a forecasting call stores
KindOf(op) ==
    CASE op = "forecast_revenue" -> "revenue"
      [] op = "forecast_expenses" -> "expenses"
      [] op = "forecast_inventory_needs" -> "inventory"

\* a forecasting step stores its result under its own kind if it succeeds and
\* leaves every other stored forecast as it was
ForecastStepStoresItsKind ==
    ret'.op \in {"forecast_revenue", "forecast_expenses", "forecast_inventory_needs"} =>
        IF IsNone(ret'.end.val[1])
        THEN forecast_data' = forecast_data
        ELSE /\ forecast_data'[KindOf(ret'.op)].forecast = ret'.end.val[1]
             /\ \A other \in ForecastKinds \ {KindOf(ret'.op)} :
                    forecast_data'[other] = forecast_data[other]

\* C23: after any sequence of forecast_revenue, forecast_expenses and
\* forecast_inventory_needs calls with any horizon >= 0 the stored forecast of
\* each kind is the result of the most recent successful call of that kind (a
\* failed call changes no stored forecast, a successful call changes only its
\* own kind), and get_forecast_summary returns without failing a summary with
\* exactly one entry per kind that has a stored forecast.
C23_SummaryCoversTheStoredForecasts ==
    [][ /\ ForecastStepStoresItsKind
        /\ ret'.op = "get_forecast_summary" =>
               /\ ~ret'.end.raised
               /\ DOMAIN ret'.end.val = StoredKinds(forecast_data)
               /\ forecast_data' = forecast_data ]_vars

\* the sum of the quantities sold under a product identifier, missing ones skipped
QuantityTotal(product_id) ==
    SumSeq([i \in DOMAIN sales_data.rows |->
               IF sales_data.rows[i]["product_id"] = product_id
               THEN sales_data.rows[i]["quantity"] ELSE 0])

\* the sale dates of a product
SaleDates(product_id) ==
    {sales_data.rows[i]["date"] :
        i \in {j \in DOMAIN sales_data.rows : sales_data.rows[j]["product_id"] = product_id}}

\* C24: for every product_id occurring in the sales table, daily_velocity =
\* (sum of its quantities) / days_active with days_active = (last sale date -
\* first sale date in days) + 1; days_active is always >= 1, so a product sold
\* on a single day has velocity equal to its total quantity and nothing is
\* divided by zero.
C24_VelocityIsQuantityPerActiveDay ==
    ForecastReturned("forecast_inventory_needs") =>
        \A product_id \in SoldProducts(sales_data) :
            /\ days_active(sales_data, product_id) >= 1
            /\ \E first_sale \in SaleDates(product_id), last_sale \in SaleDates(product_id) :
                   /\ \A d \in SaleDates(product_id) : first_sale <= d /\ d <= last_sale
                   /\ days_active(sales_data, product_id)
                          = (last_sale - first_sale) \div TicksPerDay + 1
            /\ daily_velocity(sales_data, product_id)
                   = Rat(QuantityTotal(product_id), days_active(sales_data, product_id))
            /\ Cardinality({DateOf(d) : d \in SaleDates(product_id)}) = 1 =>
                   daily_velocity(sales_data, product_id) = RatInt(QuantityTotal(product_id))
            /\ \A i \in DOMAIN inventory_data.rows :
                   inventory_data.rows[i]["product_id"] = product_id =>
                       ret.end.val[1].rows[i]["daily_velocity"]
                           = daily_velocity(sales_data, product_id)

\* C25: every row of an inventory forecast satisfies forecasted_demand =
\* daily_velocity * horizon, predicted_stock = current_stock -
\* forecasted_demand, reorder_needed = (predicted_stock <= reorder_level) and
\* suggested_order = reorder_level + forecasted_demand if reorder_needed,
\* otherwise 0; the result has exactly one row per inventory row, in inventory
\* order.
C25_ForecastRowsFollowTheFormulas ==
    ForecastReturned("forecast_inventory_needs") =>
        /\ Len(ret.end.val[1].rows) = Len(inventory_data.rows)
        /\ \A i \in DOMAIN inventory_data.rows :
               LET row == ret.end.val[1].rows[i]
                   current_stock == StockCell(inventory_data.rows[i]["current_stock"])
                   reorder_level == StockCell(inventory_data.rows[i]["reorder_level"])
               IN  /\ \A c \in inventory_data.cols : row[c] = inventory_data.rows[i][c]
                   /\ row["forecasted_demand"]
                          = RatMul(row["daily_velocity"], RatInt(ret.arg))
                   /\ row["predicted_stock"]
                          = FloatSub(current_stock, row["forecasted_demand"])
                   /\ row["reorder_needed"]
                          = FloatLe(row["predicted_stock"], reorder_level)
                   /\ row["suggested_order"]
                          = IF row["reorder_needed"]
                            THEN RatAdd(reorder_level, row["forecasted_demand"])
                            ELSE RatInt(0)

C25_Witness ==
    /\ ForecastReturned("forecast_inventory_needs")
    /\ ret.arg = MaxInventoryHorizon
    /\ Len(ret.end.val[1].rows) = 2
    /\ ret.end.val[1].rows[1]["product_id"] = "P1"
    /\ ret.end.val[1].rows[1]["daily_velocity"] = Rat(4, 3)
    /\ ret.end.val[1].rows[1]["forecasted_demand"] = Rat(4 * MaxInventoryHorizon, 3)
    /\ ret.end.val[1].rows[1]["current_stock"] = 25
    /\ RatLt(RatInt(20), ret.end.val[1].rows[1]["predicted_stock"])
    /\ ~ret.end.val[1].rows[1]["reorder_needed"]
    /\ ret.end.val[1].rows[2]["product_id"] = "P2"
    /\ ret.end.val[1].rows[2]["current_stock"] = 10
    /\ ret.end.val[1].rows[2]["predicted_stock"] = RatInt(10)
    /\ ret.end.val[1].rows[2]["reorder_needed"]
    /\ ret.end.val[1].rows[2]["suggested_order"] = RatInt(10)

\* the calendar days of the expenses table, in date order
ExpenseDays ==
    IF IsNone(expenses_data) THEN <<>>
    ELSE SortSet({DateOf(r["date"]) : r \in Range(expenses_data.rows)})

\* the sum of the amounts of one calendar day
ExpenseDayTotal(day) ==
    SumSeq([i \in DOMAIN expenses_data.rows |->
               IF DateOf(expenses_data.rows[i]["date"]) = day
               THEN expenses_data.rows[i]["amount"] ELSE 0])

\* the mean of the last w daily totals
TrailingMean(w) ==
    Rat(SumOf([i \in 1..w |-> ExpenseDayTotal(ExpenseDays[Len(ExpenseDays) - w + i])]), w)

\* C26: forecast_expenses on n >= 7 resampled daily points uses window w =
\* min(7, floor(n/2)), so 3 <= w <= 7, and a base equal to the mean of the last
\* w daily totals; every prediction equals max(0, base * (1 + e)) for that
\* step's noise term e, hence every prediction is >= 0 and equals the base
\* when e = 0; with fewer than 7 daily points it fails with an
\* insufficient-data error.
C26_ExpensePredictionsFollowTheTrailingMean ==
    ret.op = "forecast_expenses" =>
        IF Len(ExpenseDays) >= ExpenseMinDataPoints
        THEN LET w == Min(7, Len(ExpenseDays) \div 2)
             IN  /\ ~IsNone(ret.end.val[1])
                 /\ 3 <= w /\ w <= 7
                 /\ forecast_data.expenses.metrics.window_size = w
                 /\ \A k \in DOMAIN ret.end.val[1].rows :
                        LET prediction == ret.end.val[1].rows[k]["predicted_expenses"]
                            e == ret.arg[2][k]
                        IN  /\ prediction
                                   = RatMax(RatInt(0),
                                            RatMul(TrailingMean(w), RatAdd(RatInt(1), e)))
                            /\ RatLe(RatInt(0), prediction)
                            /\ e = RatInt(0) => prediction = TrailingMean(w)
        ELSE ret.end.val
                 = <<None, Str("Insufficient expense data for forecasting", <<>>)>>

\* the mean of the per-calendar-day totals of a column: its sum over the
\* number of distinct calendar days
MeanOfDayTotals(df, valcol) ==
    Rat(SumSeq(Column(df, valcol)),
        Cardinality({DateOf(r["date"]) : r \in Range(df.rows)}))

\* C27: avg_daily_revenue is the mean of per-calendar-day revenue totals: all
\* sales rows of one calendar day, whatever their time of day, are summed into
\* one daily total before averaging, so the number of totals averaged is the
\* number of distinct calendar days; avg_daily_expenses uses the same grouping,
\* which is the daily grouping of the resampler.
C27_DailyAverageIsPerCalendarDay ==
    ret.op = "calculate_kpis" =>
        /\ (~IsNone(sales_data) /\ sales_data.rows # <<>>) =>
               /\ ret.end.val.avg_daily_revenue = MeanOfDayTotals(sales_data, "revenue")
               /\ Cardinality({DateOf(r["date"]) : r \in Range(sales_data.rows)})
                      = Len(prepare_time_series_data(sales_data, "date", "revenue",
                                                     "daily").end.val.rows)
        /\ (~IsNone(expenses_data) /\ expenses_data.rows # <<>>) =>
               ret.end.val.avg_daily_expenses = MeanOfDayTotals(expenses_data, "amount")

\* C28: a period granularity other than daily, weekly or monthly is handled as
\* an unsupported-input failure by both resampling entry points:
\* get_revenue_trend_data and prepare_time_series_data each end with an error
\* outcome and no data, without an unhandled exception reaching the caller and
\* without changing the loaded tables.
C28_UnknownPeriodIsReportedNotRaised ==
    [][ (/\ ret'.op \in {"get_revenue_trend_data", "prepare_time_series_data"}
         /\ ret'.arg \notin {"daily", "weekly", "monthly"}) =>
            /\ ~ret'.end.raised
            /\ IsNone(ret'.end.val)
            /\ LoadedTables' = LoadedTables ]_vars

====
